---- MODULE Spec2Model ----
(***************************************************************************)
(* Model of the protocol translation layer of vscode-lm-proxy: one inbound *)
(* request of one dialect (OpenAI Chat Completions, OpenAI Responses,      *)
(* Anthropic Messages) is validated, the host model is called once, and    *)
(* the host's fragment stream is synthesized into the dialect's response,  *)
(* either as one JSON object or as a sequence of SSE frames written to the *)
(* transport one generator resumption at a time.                           *)
(***************************************************************************)
EXTENDS Integers, Sequences, FiniteSets, TLC

(* ---------------------------------------------------------------------- *)
(* Bounds                                                                 *)
(* ---------------------------------------------------------------------- *)

\* Longest fragment sequence the host stream yields before it ends or fails.
MaxParts == 3

\* The start() and stop() calls followed in one extension host.
MaxCalls == 2

\* The fragments of each of two concurrent requests.
MaxConcurrentParts == 2

(* ---------------------------------------------------------------------- *)
(* Values                                                                 *)
(* ---------------------------------------------------------------------- *)

\* JavaScript's undefined and null, as they appear in optional fields.
Undefined == "<undefined>"
Null == "<null>"

Dialects == {"openai", "responses", "anthropic"}

\* A JSON object is a sequence of <<key, string value>> pairs, in key order.
EmptyObject == <<>>
TokyoInput == << <<"location", "Tokyo">> >>

\* vscode.LanguageModelTextPart
TextPart(v) ==
  [kind |-> "text", value |-> v, callId |-> "", name |-> "", input |-> EmptyObject]

\* vscode.LanguageModelToolCallPart
ToolCallPart(id, n, in) ==
  [kind |-> "tool", value |-> "", callId |-> id, name |-> n, input |-> in]

\* Any other stream element (the stream's element type includes unknown).
UnknownPart ==
  [kind |-> "other", value |-> "", callId |-> "", name |-> "", input |-> EmptyObject]

\* The fragments the host stream may yield.
StreamParts ==
  { TextPart(""), TextPart("Hello!"),
    ToolCallPart("call_1", "get_weather", TokyoInput),
    ToolCallPart("call_2", "get_time", EmptyObject),
    UnknownPart }

isTextPart(part) == part.kind = "text"

isToolCallPart(part) == part.kind = "tool"

\* JSON.stringify of an object of string-valued properties.
RECURSIVE JSONStringifyMembers(_)
JSONStringifyMembers(obj) ==
  IF obj = <<>> THEN ""
  ELSE "\"" \o obj[1][1] \o "\":\"" \o obj[1][2] \o "\""
       \o (IF Len(obj) > 1 THEN "," ELSE "")
       \o JSONStringifyMembers(Tail(obj))

JSONStringify(obj) == "{" \o JSONStringifyMembers(obj) \o "}"

\* JSON.stringify(part) of a LanguageModelToolCallPart {callId, name, input}.
JSONStringifyPart(part) ==
  "{\"callId\":\"" \o part.callId \o "\",\"name\":\"" \o part.name
  \o "\",\"input\":" \o JSONStringify(part.input) \o "}"

\* vsCodeModel.countTokens(text): the host's counting primitive, here one
\* token per started group of four characters.
countTokens(text) == (Len(text) + 3) \div 4

\* Input-token totals the request normalizer may return.
InputTokenCounts == {0, 9}

(* ---------------------------------------------------------------------- *)
(* Request bodies                                                         *)
(* ---------------------------------------------------------------------- *)

\* Shapes of body.messages (OpenAI Chat, Anthropic).
MessagesShapes ==
  {"undefined", "notArray", "emptyArray", "nonEmptyArray", "arrayWithNull"}

\* The roles of the elements of body.messages; Null is a null element.
MessagesOf(shape) ==
  CASE shape = "nonEmptyArray" -> << "user", "assistant" >>
    [] shape = "arrayWithNull" -> << "user", Null >>
    [] OTHER -> <<>>

\* Shapes of body.input (OpenAI Responses).
InputShapes ==
  {"undefined", "null", "emptyString", "blankString", "emptyArray",
   "string", "array", "arrayWithoutMessage", "arrayWithNull"}

\* The type members of the items of an array body.input: an item without
\* type 'message' is one of another type or one that has no type member;
\* Null is a null item.
InputItems(shape) ==
  CASE shape = "array" -> << "message", "function_call_output", "message" >>
    [] shape = "arrayWithoutMessage" -> << "function_call_output", Undefined >>
    [] shape = "arrayWithNull" -> << "message", Null >>
    [] OTHER -> <<>>

ModelFields == {Undefined, "some-model"}

Bodies(d) ==
  IF d = "responses"
  THEN [messages : {"undefined"}, input : InputShapes,
        instructions : BOOLEAN, system : {FALSE},
        model : ModelFields, stream : BOOLEAN]
  ELSE [messages : MessagesShapes, input : {"undefined"},
        instructions : {FALSE},
        system : IF d = "anthropic" THEN BOOLEAN ELSE {FALSE},
        model : ModelFields, stream : BOOLEAN]

(* ---------------------------------------------------------------------- *)
(* Errors                                                                 *)
(* ---------------------------------------------------------------------- *)

\* error.message is undefined, a plain text, or the host backend's
\* "Request Failed: <status> <json>" text, whose JSON part parses to an
\* object with an error member, parses to an object without one, or does
\* not parse.
NoMessage == [kind |-> "undefined"]
PlainMessage == [kind |-> "plain"]
RequestFailed(json) == [kind |-> "request_failed", json |-> json]

ErrorMessages ==
  { NoMessage, PlainMessage,
    RequestFailed("error_object"), RequestFailed("no_error_member"),
    RequestFailed("not_json") }

\* The JSON text embedded in a "Request Failed" message.
EmbeddedJson(message) ==
  CASE message.json = "error_object" ->
         "{\"error\":{\"type\":\"rate_limit_error\",\"message\":\"Too many requests\"}}"
    [] message.json = "no_error_member" -> "{\"message\":\"Too many requests\"}"
    [] OTHER -> "{oops}"

\* The string value of a defined error.message.
MessageText(message) ==
  IF message.kind = "plain" THEN "model overloaded"
  ELSE "Request Failed: 429 " \o EmbeddedJson(message)

\* The error names of vscode.LanguageModelError the handlers switch on.
HostErrorNames ==
  {"InvalidMessageFormat", "InvalidModel", "NoPermissions", "Blocked",
   "NotFound", "ChatQuotaExceeded", "Unknown"}

\* Errors the host model may throw: the named kinds, a plain Error with any
\* message, and an error of a name no handler knows.
HostErrors ==
  [name : HostErrorNames, code : {Undefined}, message : {PlainMessage}]
  \cup [name : {"Error"}, code : {Undefined}, message : ErrorMessages]
  \cup [name : {"TypeError"}, code : {Undefined}, message : {PlainMessage}]

NoError == [name |-> "", code |-> Undefined, message |-> NoMessage]

\* { ...new Error(text), name, code }: the spread copies no message, since
\* message is not an enumerable property of an Error.
SpreadError(n, c) == [name |-> n, code |-> c, message |-> NoMessage]

\* error.message || 'An unknown error has occurred'
MessageOrDefault(error) ==
  IF error.message.kind = "undefined" THEN "An unknown error has occurred"
  ELSE MessageText(error.message)

\* error.code || 'internal_error'
CodeOrDefault(error) ==
  IF error.code = Undefined THEN "internal_error" ELSE error.code

APIError(error, statusCode, type, code, param) ==
  [code |-> code, message |-> MessageOrDefault(error), type |-> type,
   status |-> statusCode, param |-> param, name |-> error.name]

\* OpenAI Chat: LanguageModelError -> { statusCode, apiError }
handleChatCompletionError(error) ==
  CASE error.name = "InvalidMessageFormat" ->
         [statusCode |-> 400,
          apiError |-> APIError(error, 400, "invalid_request_error",
                                "invalid_message_format", Null)]
    [] error.name = "InvalidModel" ->
         [statusCode |-> 400,
          apiError |-> APIError(error, 400, "invalid_request_error",
                                "invalid_model", Null)]
    [] error.name = "NoPermissions" ->
         [statusCode |-> 403,
          apiError |-> APIError(error, 403, "access_terminated",
                                "access_terminated", Null)]
    [] error.name = "Blocked" ->
         [statusCode |-> 403,
          apiError |-> APIError(error, 403, "blocked", "blocked", Null)]
    [] error.name = "NotFound" ->
         [statusCode |-> 404,
          apiError |-> APIError(error, 404, "not_found_error",
                                "model_not_found", "model")]
    [] error.name = "ChatQuotaExceeded" ->
         [statusCode |-> 429,
          apiError |-> APIError(error, 429, "insufficient_quota",
                                "quota_exceeded", Null)]
    [] error.name = "Unknown" ->
         [statusCode |-> 500,
          apiError |-> APIError(error, 500, "server_error",
                                "internal_server_error", Null)]
    [] OTHER ->
         [statusCode |-> 500,
          apiError |-> APIError(error, 500, "api_error",
                                CodeOrDefault(error), Null)]

\* OpenAI Responses: LanguageModelError -> { statusCode, apiError }
handleResponsesError(error) ==
  CASE error.name = "InvalidInputRequest" ->
         [statusCode |-> 400,
          apiError |-> APIError(error, 400, "invalid_request_error",
                                "invalid_request_error", Null)]
    [] error.name = "InvalidModel" ->
         [statusCode |-> 400,
          apiError |-> APIError(error, 400, "invalid_request_error",
                                "invalid_model", Null)]
    [] error.name = "NoPermissions" ->
         [statusCode |-> 403,
          apiError |-> APIError(error, 403, "access_terminated",
                                "access_terminated", Null)]
    [] error.name = "Blocked" ->
         [statusCode |-> 403,
          apiError |-> APIError(error, 403, "blocked", "blocked", Null)]
    [] error.name = "NotFound" ->
         [statusCode |-> 404,
          apiError |-> APIError(error, 404, "not_found_error",
                                "model_not_found", "model")]
    [] error.name = "ChatQuotaExceeded" ->
         [statusCode |-> 429,
          apiError |-> APIError(error, 429, "insufficient_quota",
                                "quota_exceeded", Null)]
    [] error.name = "Unknown" ->
         [statusCode |-> 500,
          apiError |-> APIError(error, 500, "server_error",
                                "internal_server_error", Null)]
    [] OTHER ->
         [statusCode |-> 500,
          apiError |-> APIError(error, 500, "api_error",
                                CodeOrDefault(error), Null)]

\* Anthropic, case 'Error': error.message.match(/Request Failed: .../) and
\* JSON.parse of the match throw on an undefined message, on text that is
\* not JSON, and on an object without an error member.
RequestFailedShimThrows(error) ==
  \/ error.message.kind = "undefined"
  \/ /\ error.message.kind = "request_failed"
     /\ error.message.json # "error_object"

\* Anthropic: LanguageModelError -> { statusCode, errorObject }, or a throw.
handleMessageError(error) ==
  LET result(statusCode, type) ==
        [threw |-> FALSE, statusCode |-> statusCode,
         errorObject |-> [type |-> type, message |-> MessageOrDefault(error)]]
  IN CASE error.name \in {"InvalidMessageFormat", "InvalidModel"} ->
            result(400, "invalid_request_error")
       [] error.name \in {"NoPermissions", "Blocked"} ->
            result(403, "permission_error")
       [] error.name = "NotFound" -> result(404, "not_found_error")
       [] error.name = "ChatQuotaExceeded" -> result(429, "rate_limit_error")
       [] error.name = "Error" ->
            IF RequestFailedShimThrows(error)
            THEN [threw |-> TRUE, statusCode |-> 500,
                  errorObject |-> [type |-> "api_error", message |-> ""]]
            ELSE IF error.message.kind = "request_failed"
            THEN [threw |-> FALSE, statusCode |-> 429,
                  errorObject |-> [type |-> "rate_limit_error",
                                   message |-> "Too many requests"]]
            ELSE result(500, "api_error")
       [] OTHER -> result(500, "api_error")

(* ---------------------------------------------------------------------- *)
(* Request validation                                                     *)
(* ---------------------------------------------------------------------- *)

\* OpenAI Chat: the error validateChatCompletionRequest throws, or NoError.
validateChatCompletionRequest(body) ==
  IF body.messages \in {"undefined", "notArray", "emptyArray"}
  THEN SpreadError("InvalidMessageRequest", "invalid_message_format")
  ELSE IF body.model = Undefined
  THEN SpreadError("InvalidModelRequest", "invalid_model")
  ELSE NoError

\* OpenAI Responses: the error validateResponsesRequest throws, or NoError.
validateResponsesRequest(body) ==
  IF body.input \in {"undefined", "null", "emptyString", "blankString",
                     "emptyArray"}
  THEN SpreadError("InvalidInputRequest", "invalid_request_error")
  ELSE NoError

\* Anthropic: the error validateMessagesRequest throws, or NoError.
validateMessagesRequest(body) ==
  IF body.messages \in {"undefined", "notArray", "emptyArray"}
  THEN SpreadError("InvalidMessageRequest", "invalid_request_error")
  ELSE IF body.model = Undefined
  THEN SpreadError("InvalidModelRequest", "not_found_error")
  ELSE NoError

(* ---------------------------------------------------------------------- *)
(* Request normalizers: the canonical messages handed to the host model   *)
(* ---------------------------------------------------------------------- *)

\* The names of the messages a normalizer builds, or that it threw.
Normalized(names) == [threw |-> FALSE, messages |-> names]
NormalizerThrew == [threw |-> TRUE, messages |-> <<>>]

HasNull(items) == \E i \in 1..Len(items) : items[i] = Null

\* name of the message built for a role
NameOfRole(role) == IF role = "user" THEN "User" ELSE "Assistant"

\* OpenAI Chat: one message per element of body.messages; reading the
\* role of a null element throws.
convertOpenAIRequestToVSCodeRequest(b) ==
  LET items == MessagesOf(b.messages)
  IN IF HasNull(items) THEN NormalizerThrew
     ELSE Normalized([i \in 1..Len(items) |-> NameOfRole(items[i])])

\* Anthropic: a System message for a string system prompt, then one
\* message per element of body.messages.
convertAnthropicRequestToVSCodeRequest(b) ==
  LET items == MessagesOf(b.messages)
  IN IF HasNull(items) THEN NormalizerThrew
     ELSE Normalized((IF b.system THEN << "System" >> ELSE <<>>)
                     \o [i \in 1..Len(items) |-> NameOfRole(items[i])])

\* The messages pushed for the items of an array input: one for each item
\* whose type is 'message', none for any other item.
RECURSIVE MessagesOfItems(_)
MessagesOfItems(items) ==
  IF items = <<>> THEN <<>>
  ELSE (IF items[1] = "message" THEN << "User" >> ELSE <<>>)
       \o MessagesOfItems(Tail(items))

\* OpenAI Responses: a System message for instructions, one User message
\* for a string input, one message per 'message' item of an array input.
convertResponsesRequestToVSCodeRequest(b) ==
  LET items == InputItems(b.input)
  IN IF HasNull(items) THEN NormalizerThrew
     ELSE Normalized((IF b.instructions THEN << "System" >> ELSE <<>>)
                     \o (IF b.input = "string" THEN << "User" >>
                         ELSE MessagesOfItems(items)))

(* ---------------------------------------------------------------------- *)
(* Request normalizers: roles, content parts, tools, toolMode and         *)
(* modelOptions of the canonical request                                  *)
(* ---------------------------------------------------------------------- *)

\* Message content of a request: a string, an array of parts, or neither.
StringContent(s) == [kind |-> "string", text |-> s, parts |-> <<>>]
ArrayContent(ps) == [kind |-> "array", text |-> "", parts |-> ps]
NoContent == [kind |-> "undefined", text |-> "", parts |-> <<>>]

\* One input content part: its type, its text, and the member that carries
\* its payload (image_url, file_url, refusal, ..), Undefined when absent.
InputPart(t, txt, p) == [type |-> t, text |-> txt, payload |-> p]

\* One input message (an item of a Responses input array carries a type).
InputMessage(t, r, c) == [type |-> t, role |-> r, content |-> c]

\* A slot of a mapped array whose callback returned nothing.
UndefinedPart ==
  [kind |-> "undefined", value |-> "", callId |-> "", name |-> "", input |-> EmptyObject]

\* vscode.LanguageModelToolResultPart
ToolResultPart(id) ==
  [kind |-> "toolResult", value |-> "", callId |-> id, name |-> "", input |-> EmptyObject]

\* new vscode.LanguageModelChatMessage(role, content, name)
LanguageModelChatMessage(role, c, name) == [role |-> role, content |-> c, name |-> name]

\* JSON.stringify of a part's payload member.
JSONStringifyPayload(p) == JSONStringify(<< <<"data", p>> >>)

\* OpenAI Chat, the role switch: it has no default, so any other role
\* leaves `role` unassigned.
ChatRole(role) ==
  CASE role = "user" -> "User"
    [] role \in {"assistant", "developer", "system", "tool", "function"} -> "Assistant"
    [] OTHER -> Undefined

ChatPrefix(role) ==
  CASE role = "developer" -> "[DEVELOPER] "
    [] role = "system" -> "[SYSTEM] "
    [] role = "tool" -> "[TOOL] "
    [] role = "function" -> "[FUNCTION] "
    [] OTHER -> ""

ChatName(role) ==
  CASE role = "user" -> "User"
    [] role = "developer" -> "Developer"
    [] role = "system" -> "System"
    [] role = "tool" -> "Tool"
    [] role = "function" -> "Function"
    [] OTHER -> "Assistant"

\* OpenAI Chat, the switch over c.type inside msg.content.map: no default.
ChatPart(c) ==
  CASE c.type = "text" -> TextPart(c.text)
    [] c.type = "image_url" -> TextPart("[Image URL]: " \o JSONStringifyPayload(c.payload))
    [] c.type = "input_audio" -> TextPart("[Input Audio]: " \o JSONStringifyPayload(c.payload))
    [] c.type = "file" -> TextPart("[File]: " \o JSONStringifyPayload(c.payload))
    [] c.type = "refusal" -> TextPart("[Refusal]: " \o c.payload)
    [] OTHER -> UndefinedPart

\* OpenAI Chat: the prefix goes onto string content only.
ChatContent(prefix, c) ==
  CASE c.kind = "string" -> StringContent(prefix \o c.text)
    [] c.kind = "array" -> ArrayContent([i \in 1..Len(c.parts) |-> ChatPart(c.parts[i])])
    [] OTHER -> StringContent("")

ChatMessage(msg) ==
  LanguageModelChatMessage(ChatRole(msg.role),
                           ChatContent(ChatPrefix(msg.role), msg.content),
                           ChatName(msg.role))

ChatMessages(msgs) == [i \in 1..Len(msgs) |-> ChatMessage(msgs[i])]

\* OpenAI Responses, the role switch of a 'message' item: default is User.
ResponsesRole(role) ==
  CASE role = "user" -> "User"
    [] role \in {"assistant", "system", "developer"} -> "Assistant"
    [] OTHER -> "User"

ResponsesPrefix(role) ==
  CASE role = "system" -> "[SYSTEM] "
    [] role = "developer" -> "[DEVELOPER] "
    [] OTHER -> ""

ResponsesName(role) ==
  CASE role = "assistant" -> "Assistant"
    [] role = "system" -> "System"
    [] role = "developer" -> "Developer"
    [] OTHER -> "User"

\* OpenAI Responses, the if-chain over item.content: a part pushes a
\* TextPart only when its type is known and its member is truthy.
RECURSIVE ResponsesParts(_, _)
ResponsesParts(prefix, ps) ==
  IF ps = <<>> THEN <<>>
  ELSE LET part_ == ps[1]
           pushed ==
             CASE part_.type = "input_text" /\ part_.text # ""
                    -> << TextPart(prefix \o part_.text) >>
               [] part_.type = "output_text" /\ part_.text # ""
                    -> << TextPart(part_.text) >>
               [] part_.type = "input_image" /\ part_.payload # Undefined
                    -> << TextPart("[Image URL]: " \o part_.payload) >>
               [] part_.type = "input_file" /\ part_.payload # Undefined
                    -> << TextPart("[File URL]: " \o part_.payload) >>
               [] OTHER -> <<>>
       IN pushed \o ResponsesParts(prefix, Tail(ps))

ResponsesContent(prefix, c) ==
  CASE c.kind = "string" -> StringContent(prefix \o c.text)
    [] c.kind = "array" ->
         LET ps == ResponsesParts(prefix, c.parts)
         IN IF Len(ps) > 0 THEN ArrayContent(ps) ELSE StringContent(prefix)
    [] OTHER -> StringContent(prefix)

\* One message per item of type 'message'; every other item is skipped.
RECURSIVE ResponsesItems(_)
ResponsesItems(items) ==
  IF items = <<>> THEN <<>>
  ELSE (IF items[1].type = "message"
        THEN << LanguageModelChatMessage(
                  ResponsesRole(items[1].role),
                  ResponsesContent(ResponsesPrefix(items[1].role), items[1].content),
                  ResponsesName(items[1].role)) >>
        ELSE <<>>)
       \o ResponsesItems(Tail(items))

\* OpenAI Responses: instructions first, then the input.
ResponsesMessages(instructions, input) ==
  (IF instructions # Undefined /\ instructions # ""
   THEN << LanguageModelChatMessage("Assistant",
             StringContent("[SYSTEM] " \o instructions), "System") >>
   ELSE <<>>)
  \o (CASE input.kind = "string" ->
             << LanguageModelChatMessage("User", StringContent(input.text), "User") >>
        [] input.kind = "array" -> ResponsesItems(input.parts)
        [] OTHER -> <<>>)

\* Anthropic, the role switch: two cases and no default.
AnthropicRole(role) ==
  CASE role = "user" -> "User"
    [] role = "assistant" -> "Assistant"
    [] OTHER -> Undefined

AnthropicName(role) == IF role = "user" THEN "User" ELSE "Assistant"

\* Anthropic, the switch over c.type inside msg.content.map.
AnthropicPart(c) ==
  CASE c.type = "text" -> TextPart(c.text)
    [] c.type = "image" -> TextPart("[Image] " \o JSONStringifyPayload(c.payload))
    [] c.type = "tool_use" -> ToolCallPart(c.payload, "get_weather", EmptyObject)
    [] c.type = "tool_result" -> ToolResultPart(c.payload)
    [] c.type = "document" -> TextPart("[Document] " \o JSONStringifyPayload(c.payload))
    [] c.type = "thinking" -> TextPart("[Thinking] " \o JSONStringifyPayload(c.payload))
    [] c.type = "redacted_thinking"
         -> TextPart("[Redacted Thinking] " \o JSONStringifyPayload(c.payload))
    [] c.type = "server_tool_use" -> TextPart("[Server Tool Use]")
    [] c.type = "web_search_tool_result" -> TextPart("[Web Search Tool Result]")
    [] OTHER -> TextPart("[Unknown Type] " \o JSONStringifyPayload(c.payload))

AnthropicContent(c) ==
  CASE c.kind = "string" -> StringContent(c.text)
    [] c.kind = "array" ->
         ArrayContent([i \in 1..Len(c.parts) |-> AnthropicPart(c.parts[i])])
    [] OTHER -> StringContent("")

\* Anthropic, the system prompt: one System message for a non-empty
\* string, one per text block of an array.
RECURSIVE SystemBlocks(_)
SystemBlocks(blocks) ==
  IF blocks = <<>> THEN <<>>
  ELSE (IF blocks[1].type = "text"
        THEN << LanguageModelChatMessage("Assistant",
                  StringContent("[SYSTEM] " \o blocks[1].text), "System") >>
        ELSE <<>>)
       \o SystemBlocks(Tail(blocks))

AnthropicSystem(system) ==
  CASE system.kind = "string" /\ system.text # "" ->
         << LanguageModelChatMessage("Assistant",
              StringContent("[SYSTEM] " \o system.text), "System") >>
    [] system.kind = "array" -> SystemBlocks(system.parts)
    [] OTHER -> <<>>

AnthropicMessages(system, msgs) ==
  AnthropicSystem(system)
  \o [i \in 1..Len(msgs) |->
        LanguageModelChatMessage(AnthropicRole(msgs[i].role),
                                 AnthropicContent(msgs[i].content),
                                 AnthropicName(msgs[i].role))]

\* tool_choice of a request: absent, a string, or an object with a type.
NoToolChoice == [kind |-> "undefined", type |-> ""]
StringChoice(s) == [kind |-> "string", type |-> s]
ObjectChoice(t) == [kind |-> "object", type |-> t]

\* OpenAI Chat: options.toolMode, Undefined when it is never assigned.
ChatToolMode(tc) ==
  CASE tc.kind = "undefined" -> Undefined
    [] tc.kind = "string" /\ tc.type = "auto" -> "Auto"
    [] tc.kind = "string" /\ tc.type = "required" -> "Required"
    [] tc.kind = "string" /\ tc.type = "none" -> "Auto"
    [] tc.kind = "string" -> Undefined
    [] OTHER -> "Auto"

\* OpenAI Responses: the same switch, written again in its converter.
ResponsesToolMode(tc) ==
  CASE tc.kind = "undefined" -> Undefined
    [] tc.kind = "string" /\ tc.type = "auto" -> "Auto"
    [] tc.kind = "string" /\ tc.type = "required" -> "Required"
    [] tc.kind = "string" /\ tc.type = "none" -> "Auto"
    [] tc.kind = "string" -> Undefined
    [] OTHER -> "Auto"

\* A mutant of AnthropicToolMode: the case 'none' is missing.
AnthropicToolModeWithoutNone(tc) ==
  CASE tc.kind = "undefined" -> Undefined
    [] tc.type = "auto" -> "Auto"
    [] tc.type = "any" -> "Required"
    [] tc.type = "tool" -> "Required"
    [] OTHER -> Undefined

\* Anthropic: the switch over tool_choice.type.
AnthropicToolMode(tc) ==
  CASE tc.kind = "undefined" -> Undefined
    [] tc.type = "auto" -> "Auto"
    [] tc.type = "any" -> "Required"
    [] tc.type = "tool" -> "Required"
    [] tc.type = "none" -> "Auto"
    [] OTHER -> Undefined

\* One tool of a request: its type, its name and description (top level
\* for Anthropic, inside the `function` member for OpenAI), and whether it
\* has a `function` member at all.
RequestTool(t, n, desc, fn) ==
  [type |-> t, name |-> n, description |-> desc, hasFunction |-> fn]

NoTools == [kind |-> "undefined", items |-> <<>>]
ToolArray(ts) == [kind |-> "array", items |-> ts]

\* A canonical tool (vscode.LanguageModelChatTool), without its schema.
ChatTool(n, desc) == [name |-> n, description |-> desc]

ConvertedTools(ts) == [threw |-> FALSE, set |-> TRUE, tools |-> ts]
ToolsUnset == [threw |-> FALSE, set |-> FALSE, tools |-> <<>>]
\* reading `.name` of an absent `function` member
ToolsThrew == [threw |-> TRUE, set |-> FALSE, tools |-> <<>>]

\* tool.function.description ?? ''
FunctionTool(tool) ==
  ChatTool(tool.name, IF tool.description = Undefined THEN "" ELSE tool.description)

\* OpenAI Chat: every tool is mapped through its `function` member.
ChatTools(tools) ==
  IF tools.kind # "array" THEN ToolsUnset
  ELSE IF \E i \in 1..Len(tools.items) : ~tools.items[i].hasFunction THEN ToolsThrew
  ELSE ConvertedTools([i \in 1..Len(tools.items) |-> FunctionTool(tools.items[i])])

\* OpenAI Responses: only tools of type 'function' are kept.
IsFunctionTool(tool) == tool.type = "function"

ResponsesTools(tools) ==
  LET kept == SelectSeq(tools.items, IsFunctionTool)
  IN IF tools.kind # "array" THEN ToolsUnset
     ELSE IF \E i \in 1..Len(kept) : ~kept[i].hasFunction THEN ToolsThrew
     ELSE ConvertedTools([i \in 1..Len(kept) |-> FunctionTool(kept[i])])

\* Anthropic: the switch over tool.name; built-in tools get a description
\* made of their kind and type, any other tool is a custom tool.
AnthropicTool(tool) ==
  CASE tool.name = "bash"
         -> ChatTool(tool.name, "Bash shell execution. Type: " \o tool.type)
    [] tool.name = "code_execution"
         -> ChatTool(tool.name, "Code execution. Type: " \o tool.type)
    [] tool.name = "computer"
         -> ChatTool(tool.name, "Computer use tool. Type: " \o tool.type)
    [] tool.name \in {"str_replace_editor", "str_replace_based_edit_tool"}
         -> ChatTool(tool.name, "Text editor tool. Type: " \o tool.type)
    [] tool.name = "web_search"
         -> ChatTool(tool.name, "Web search tool. Type: " \o tool.type)
    [] OTHER
         -> ChatTool(tool.name,
                     IF tool.description = Undefined
                     THEN "Custom tool. Name: " \o tool.name
                     ELSE tool.description)

AnthropicTools(tools) ==
  IF tools.kind # "array" THEN ToolsUnset
  ELSE ConvertedTools([i \in 1..Len(tools.items) |-> AnthropicTool(tools.items[i])])

\* The remaining fields of a request are a function from the keys that
\* are present with a defined value to their values; modelOptions is such
\* a function too, and options.modelOptions is set only when it has a key.
ChatModelOptionKeys ==
  { "audio", "frequency_penalty", "function_call", "functions", "logit_bias",
    "logprobs", "max_completion_tokens", "max_tokens", "metadata", "modalities",
    "n", "parallel_tool_calls", "prediction", "presence_penalty",
    "reasoning_effort", "response_format", "seed", "service_tier", "stop",
    "store", "stream", "stream_options", "temperature", "top_logprobs", "top_p",
    "user", "web_search_options" }

ChatModelOptions(fields) ==
  [k \in ChatModelOptionKeys \cap DOMAIN fields |-> fields[k]]

\* OpenAI Responses: four fields, max_output_tokens under the key max_tokens.
ResponsesModelOptions(fields) ==
  [k \in ({"temperature", "top_p", "parallel_tool_calls"} \cap DOMAIN fields)
         \cup (IF "max_output_tokens" \in DOMAIN fields THEN {"max_tokens"} ELSE {})
     |-> IF k = "max_tokens" THEN fields["max_output_tokens"] ELSE fields[k]]

AnthropicModelOptionKeys ==
  { "container", "mcp_servers", "metadata", "service_tier", "stop_sequences",
    "stream", "temperature", "thinking", "top_k", "top_p" }

\* Anthropic: the listed fields, and max_tokens always, 1 turned into 16.
AnthropicMaxTokens(fields) ==
  IF "max_tokens" \notin DOMAIN fields THEN Undefined
  ELSE IF fields["max_tokens"] = 1 THEN 16 ELSE fields["max_tokens"]

AnthropicModelOptions(fields) ==
  [k \in (AnthropicModelOptionKeys \cap DOMAIN fields) \cup {"max_tokens"}
     |-> IF k = "max_tokens" THEN AnthropicMaxTokens(fields) ELSE fields[k]]

\* What a normalizer returns: the canonical messages and the options, or
\* that it threw.
ConvertedRequest(msgs, mode, tools, modelOptions) ==
  [threw |-> tools.threw,
   messages |-> IF tools.threw THEN <<>> ELSE msgs,
   toolMode |-> IF tools.threw THEN Undefined ELSE mode,
   toolsSet |-> tools.set,
   tools |-> tools.tools,
   modelOptions |-> IF tools.threw THEN <<>> ELSE modelOptions]

OpenAIRequestToVSCodeRequest(r) ==
  ConvertedRequest(ChatMessages(r.messages), ChatToolMode(r.tool_choice),
                   ChatTools(r.tools), ChatModelOptions(r.fields))

ResponsesRequestToVSCodeRequest(r) ==
  ConvertedRequest(ResponsesMessages(r.instructions, r.input),
                   ResponsesToolMode(r.tool_choice),
                   ResponsesTools(r.tools), ResponsesModelOptions(r.fields))

AnthropicRequestToVSCodeRequest(r) ==
  ConvertedRequest(AnthropicMessages(r.system, r.messages),
                   AnthropicToolMode(r.tool_choice),
                   AnthropicTools(r.tools), AnthropicModelOptions(r.fields))

convertRequestToVSCodeRequest(r) ==
  CASE r.dialect = "openai" -> OpenAIRequestToVSCodeRequest(r)
    [] r.dialect = "responses" -> ResponsesRequestToVSCodeRequest(r)
    [] OTHER -> AnthropicRequestToVSCodeRequest(r)

(* ---------------------------------------------------------------------- *)
(* Model lookup: getVSCodeModel                                           *)
(* ---------------------------------------------------------------------- *)

\* A model id is the sequence of its words; null is the id without words.
NullId == <<>>
ProxyModelId == << "vscode-lm-proxy" >>

\* modelId.includes(word)
Includes(modelId, word) == \E i \in 1..Len(modelId) : modelId[i] = word

\* The ids of the models the host offers.
HostModelIds ==
  { << "gpt", "4o" >>, << "claude", "sonnet", "4" >>, << "claude", "haiku", "3" >>,
    << "gemini", "pro" >> }

\* The id the lookup asks the host for; Null when it throws before asking.
SelectedModelId(modelId, provider, manager) ==
  LET proxied ==
        IF modelId = ProxyModelId
        THEN CASE provider = "openai" -> manager.openaiModelId
               [] provider = "anthropic" -> manager.anthropicModelId
               [] OTHER -> modelId
        ELSE modelId
      branched ==
        IF provider = "claude"
        THEN IF Includes(modelId, "haiku") THEN manager.claudeCodeBackgroundModelId
             ELSE IF Includes(modelId, "sonnet") \/ Includes(modelId, "opus")
                  THEN manager.claudeCodeThinkingModelId
                  ELSE proxied
        ELSE proxied
  IN [threw |-> modelId = ProxyModelId /\ proxied = NullId, id |-> branched]

ModelNotFound == [threw |-> TRUE, vsCodeModelId |-> NullId]
ModelFound(id) == [threw |-> FALSE, vsCodeModelId |-> id]

\* The outcomes of getVSCodeModel: the model of the selected id when the
\* host offers it, a NotFound error otherwise; what the host answers to a
\* selector whose id is null is not specified, so any model or none.
getVSCodeModel(modelId, provider, manager) ==
  LET selected == SelectedModelId(modelId, provider, manager)
  IN IF selected.threw THEN { ModelNotFound }
     ELSE IF selected.id = NullId
          THEN { ModelNotFound } \cup { ModelFound(id) : id \in HostModelIds }
          ELSE IF selected.id \in HostModelIds THEN { ModelFound(selected.id) }
               ELSE { ModelNotFound }

(* ---------------------------------------------------------------------- *)
(* Requests given to the normalizers and to the model lookup              *)
(* ---------------------------------------------------------------------- *)

\* Sequences of one or two elements of S.
OneOrTwo(S) == { << x >> : x \in S } \cup { << x, y >> : x \in S, y \in S }

\* Roles a message may name; 'critic' is in no dialect's role table.
Roles == {"user", "assistant", "system", "developer", "tool", "critic"}

\* Content parts per dialect; 'video' is a type no normalizer knows.
ChatInputParts ==
  { InputPart("text", "hi", Undefined), InputPart("image_url", "", "u"),
    InputPart("input_audio", "", "a"), InputPart("file", "", "f"),
    InputPart("refusal", "", "no"), InputPart("video", "", "v") }

ResponsesInputParts ==
  { InputPart("input_text", "hi", Undefined), InputPart("output_text", "ok", Undefined),
    InputPart("input_image", "", "u"), InputPart("input_image", "", Undefined),
    InputPart("input_file", "", "f"), InputPart("input_audio", "", "a") }

AnthropicInputParts ==
  { InputPart("text", "hi", Undefined), InputPart("image", "", "i"),
    InputPart("document", "", "d"), InputPart("thinking", "", "t"),
    InputPart("tool_use", "", "toolu_1"), InputPart("tool_result", "", "toolu_1"),
    InputPart("video", "", "v") }

InputPartsOf(d) ==
  CASE d = "openai" -> ChatInputParts
    [] d = "responses" -> ResponsesInputParts
    [] OTHER -> AnthropicInputParts

ContentsOf(d) ==
  { StringContent("hi") } \cup { ArrayContent(ps) : ps \in OneOrTwo(InputPartsOf(d)) }

\* Message arrays: one message of any role and content, or two messages
\* of any roles with string content; a Responses item may have another type.
MessageListsOf(d) ==
  { << InputMessage("message", r, c) >> : r \in Roles, c \in ContentsOf(d) }
  \cup { << InputMessage("message", r1, StringContent("one")),
            InputMessage("message", r2, StringContent("two")) >> : r1 \in Roles, r2 \in Roles }
  \cup (IF d = "responses"
        THEN { << InputMessage("function_call_output", Undefined, NoContent),
                  InputMessage("message", "user", StringContent("hi")) >> }
        ELSE {})

SystemPrompts ==
  { NoContent, StringContent("be brief"),
    ArrayContent(<< InputPart("text", "be brief", Undefined),
                    InputPart("text", "be kind", Undefined) >>) }

ToolChoicesOf(d) ==
  IF d = "anthropic"
  THEN { NoToolChoice, ObjectChoice("auto"), ObjectChoice("any"), ObjectChoice("tool"),
         ObjectChoice("none"), ObjectChoice("maybe") }
  ELSE { NoToolChoice, StringChoice("auto"), StringChoice("required"),
         StringChoice("none"), StringChoice("maybe"), ObjectChoice("function") }

\* Tools: custom (function) tools and the dialect's built-in tool types.
RequestToolsOf(d) ==
  CASE d = "openai" ->
         { RequestTool("function", "get_weather", "Weather of a city", TRUE),
           RequestTool("function", "get_time", Undefined, TRUE),
           RequestTool("custom", "grammar", "A custom tool", FALSE) }
    [] d = "responses" ->
         { RequestTool("function", "get_weather", "Weather of a city", TRUE),
           RequestTool("function", "get_time", Undefined, FALSE),
           RequestTool("web_search_preview", Undefined, Undefined, FALSE) }
    [] OTHER ->
         { RequestTool("custom", "get_weather", "Weather of a city", FALSE),
           RequestTool("custom", "get_time", Undefined, FALSE),
           RequestTool("bash_20250124", "bash", Undefined, FALSE),
           RequestTool("web_search_20250305", "web_search", Undefined, FALSE) }

ToolListsOf(d) ==
  { NoTools, ToolArray(<<>>) } \cup { ToolArray(ts) : ts \in OneOrTwo(RequestToolsOf(d)) }

\* The other fields of a request: at most two of these keys, each with a
\* small or a large number as its value.
FieldKeys ==
  { "max_tokens", "max_completion_tokens", "max_output_tokens", "temperature",
    "top_k", "top_p", "seed", "truncation" }

FieldValues == {1, 100}

NoFields == [k \in {} |-> 1]

FieldSets ==
  { NoFields }
  \cup { [k \in {k1, k2} |-> IF k = k1 THEN v1 ELSE v2] :
           k1 \in FieldKeys, k2 \in FieldKeys, v1 \in FieldValues, v2 \in FieldValues }

ProviderOf(d) == IF d = "anthropic" THEN "anthropic" ELSE "openai"

\* The plainest request of a dialect: one user message and nothing else.
BaseRequest(d) ==
  [dialect |-> d,
   provider |-> ProviderOf(d),
   model |-> << "gpt", "4o" >>,
   messages |-> << InputMessage("message", "user", StringContent("hi")) >>,
   input |-> StringContent("hi"),
   instructions |-> Undefined,
   system |-> NoContent,
   tool_choice |-> NoToolChoice,
   tools |-> NoTools,
   fields |-> NoFields]

\* The requests the normalizers are given: the plainest one with its
\* messages, its system prompt, its tools or its other fields varied.
ConverterRequests(d) ==
  { [BaseRequest(d) EXCEPT !.messages = ms, !.input = ArrayContent(ms)] :
      ms \in MessageListsOf(d) }
  \cup { [BaseRequest(d) EXCEPT !.system = s,
                                !.instructions = IF s.kind = "string" THEN s.text
                                                 ELSE Undefined] : s \in SystemPrompts }
  \cup { [BaseRequest(d) EXCEPT !.tool_choice = tc, !.tools = ts] :
           tc \in ToolChoicesOf(d), ts \in ToolListsOf(d) }
  \cup { [BaseRequest(d) EXCEPT !.fields = fs] : fs \in FieldSets }

\* The model ids a request may name, and the configurations of the
\* model manager: each id is unset or the id of a model the host offers.
RequestModelIds ==
  { ProxyModelId, << "gpt", "4o" >>, << "claude", "3", "5", "haiku" >>,
    << "claude", "sonnet", "4", "5" >>, << "claude", "opus", "4" >>, << "o9" >> }

Providers == {"openai", "anthropic", "claude"}

ModelManagers ==
  [openaiModelId : {NullId, << "gpt", "4o" >>},
   anthropicModelId : {NullId, << "claude", "sonnet", "4" >>},
   claudeCodeBackgroundModelId : {NullId, << "claude", "haiku", "3" >>},
   claudeCodeThinkingModelId : {NullId, << "claude", "sonnet", "4" >>}]

\* The dialect whose handler calls the lookup with a provider.
DialectsOf(provider) ==
  IF provider = "openai" THEN {"openai", "responses"} ELSE {"anthropic"}

LookupRequests ==
  UNION { { [BaseRequest(d) EXCEPT !.provider = p, !.model = m] :
              m \in RequestModelIds, d \in DialectsOf(p) } : p \in Providers }

\* Values of the converter variables while a handler runs.
NoRequest == [dialect |-> "none"]
NoModelManager == [none |-> TRUE]
NotConverted == [threw |-> FALSE, none |-> TRUE]
NotResolved == [threw |-> FALSE, none |-> TRUE]

(* ---------------------------------------------------------------------- *)
(* State                                                                  *)
(* ---------------------------------------------------------------------- *)

VARIABLES
  dialect,            \* the endpoint the request arrived at
  body,               \* req.body
  pc,                 \* where the handler and its synthesizer stand
  hostLog,            \* host-model calls made for this request, in order
  messages,           \* names of the messages the normalizer returned
  parts,              \* fragments the synthesizer has taken from the stream
  part,               \* the fragment the Anthropic generator is working on
  streamState,        \* the host stream: none, open, ended or failed
  iterators,          \* the loops over response.stream entered so far
  inputTokens,        \* input-token total of the normalizer
  outputTokens,       \* synthesizer local
  isRoleSent,         \* OpenAI Chat streaming local
  toolCallIndex,      \* OpenAI Chat streaming local
  isToolCalled,       \* OpenAI Chat / Anthropic non-streaming local
  stopReason,         \* Anthropic streaming local
  contentIndex,       \* Anthropic streaming local
  isInsideTextBlock,  \* Anthropic streaming local
  textBuffer,         \* non-streaming and Responses local
  toolCalls,          \* OpenAI Chat non-streaming local
  content,            \* Anthropic non-streaming local
  out,                \* res.write calls so far, in order
  statusCode,         \* res.status
  jsonBody,           \* argument of res.json, once called
  ended,              \* res.end (or res.json) was called
  unhandled,          \* the handler's promise rejected
  thrown,             \* the error the handler or the stream caught, if any
  clientClosed,       \* the client closed its connection during the response
  cancellationToken,  \* the token handed to sendRequest: none, live or cancelled
  request,            \* the request a normalizer or the model lookup is given
  modelManager,       \* the model ids configured in the model manager
  canonical,          \* what the normalizer returned for request
  resolved,           \* what getVSCodeModel returned for request
  server,             \* ServerManager.server: the start() call whose server is kept
  _isRunning,         \* ServerManager._isRunning
  _currentPort,       \* ServerManager._currentPort
  managerCalls,       \* the start() and stop() calls of this extension host
  serverRunning,      \* globalState 'serverRunning'
  autoStart,          \* setting vscode-lm-proxy.autoStart
  configuredPort,     \* setting vscode-lm-proxy.port
  extension,          \* the extension: inactive, active or deactivated
  concurrent          \* the synthesizer invocations of two concurrent requests

converterVars == <<request, modelManager, canonical, resolved>>
managerVars == <<server, _isRunning, _currentPort>>
extensionVars == <<serverRunning, autoStart, configuredPort, extension>>
serverVars == <<managerVars, managerCalls, extensionVars>>
handlerVars ==
  <<serverVars, concurrent, converterVars, clientClosed, cancellationToken, dialect,
    body, hostLog, messages,
    inputTokens>>
streamVars == <<parts, part, streamState, iterators, iterators>>
chatVars == <<isRoleSent, toolCallIndex, isToolCalled, toolCalls>>
anthropicVars == <<stopReason, contentIndex, isInsideTextBlock, content>>
synthVars == <<outputTokens, textBuffer, chatVars, anthropicVars>>
resVars == <<out, statusCode, jsonBody, ended, unhandled, thrown>>
vars == <<pc, handlerVars, streamVars, synthVars, resVars>>

\* res.json was not called.
NoBody == [none |-> TRUE]

\* A frame without a JSON payload.
NoJson == [none |-> TRUE]

\* res.write(`data: ${JSON.stringify(json)}\n\n`)
DataFrame(json) == [field |-> "data", text |-> "", json |-> json]

\* res.write('data: [DONE]\n\n')
DoneFrame == [field |-> "data", text |-> "[DONE]", json |-> NoJson]

\* res.write(`event: ${type}\n`)
EventFrame(type) == [field |-> "event", text |-> type, json |-> NoJson]

isStreaming == body.stream = TRUE

\* No http.Server is kept (private server: http.Server | null = null).
NullServer == 0

\* No port is kept (private _currentPort: number | null = null).
NullPort == 0

\* The ServerManager singleton as constructed, in an extension host in
\* which the extension was not activated and no command has run.
ServerManagerConstructed ==
  /\ server = NullServer
  /\ _isRunning = FALSE
  /\ _currentPort = NullPort
  /\ managerCalls = <<>>
  /\ extension = "inactive"

\* No synthesizer is running beside the one of the request.
NoConcurrent == <<>>

\* The extension was not activated, with the default settings.
NoExtension ==
  /\ ServerManagerConstructed
  /\ concurrent = NoConcurrent
  /\ serverRunning = FALSE
  /\ autoStart = FALSE
  /\ configuredPort = 4000

Init ==
  /\ dialect \in Dialects
  /\ body \in Bodies(dialect)
  /\ pc = "validate"
  /\ hostLog = <<>>
  /\ messages = <<>>
  /\ parts = <<>>
  /\ part = UnknownPart
  /\ streamState = "none"
  /\ iterators = <<>>
  /\ inputTokens = 0
  /\ outputTokens = 0
  /\ isRoleSent = FALSE
  /\ toolCallIndex = 0
  /\ isToolCalled = FALSE
  /\ stopReason = "end_turn"
  /\ contentIndex = 0
  /\ isInsideTextBlock = FALSE
  /\ textBuffer = ""
  /\ toolCalls = <<>>
  /\ content = <<>>
  /\ out = <<>>
  /\ statusCode = 200
  /\ jsonBody = NoBody
  /\ ended = FALSE
  /\ unhandled = FALSE
  /\ thrown = NoError
  /\ clientClosed = FALSE
  /\ cancellationToken = "none"
  /\ request = NoRequest
  /\ modelManager = NoModelManager
  /\ canonical = NotConverted
  /\ resolved = NotResolved
  /\ NoExtension

(* ---------------------------------------------------------------------- *)
(* Dispatch handlers: validate, resolve the model, normalize, call host   *)
(* ---------------------------------------------------------------------- *)

\* The body the handler's catch sends with res.status(statusCode).json(..).
ErrorResponse(d, error) ==
  CASE d = "openai" ->
         LET r == handleChatCompletionError(error)
         IN [threw |-> FALSE, statusCode |-> r.statusCode,
             json |-> [error |-> r.apiError]]
    [] d = "responses" ->
         LET r == handleResponsesError(error)
         IN [threw |-> FALSE, statusCode |-> r.statusCode,
             json |-> [error |-> r.apiError]]
    [] OTHER ->
         LET r == handleMessageError(error)
         IN [threw |-> r.threw, statusCode |-> r.statusCode,
             json |-> [type |-> "error", error |-> r.errorObject]]

\* The catch of handleOpenAIChatCompletions / handleOpenAIResponses /
\* handleAnthropicMessages: map the error and answer with it; when the
\* mapper itself throws, nothing is sent and the handler's promise rejects.
CatchAndRespond(error) ==
  LET r == ErrorResponse(dialect, error)
  IN /\ pc' = "done"
     /\ thrown' = error
     /\ IF r.threw
        THEN /\ unhandled' = TRUE
             /\ UNCHANGED <<statusCode, jsonBody, ended>>
        ELSE /\ statusCode' = r.statusCode
             /\ jsonBody' = r.json
             /\ ended' = TRUE
             /\ UNCHANGED unhandled
     /\ UNCHANGED out

\* The validation error of the dialect's handler, or NoError.
ValidationError(d, b) ==
  CASE d = "openai" -> validateChatCompletionRequest(b)
    [] d = "responses" -> validateResponsesRequest(b)
    [] OTHER -> validateMessagesRequest(b)

\* validate...Request(body) at the head of the handler's try block.
\* A mutant of Validate: the model is selected before the body is validated.
ValidateAfterSelect ==
  /\ pc = "validate"
  /\ hostLog' = Append(hostLog, "selectChatModels")
  /\ LET error == ValidationError(dialect, body)
     IN IF error # NoError
        THEN CatchAndRespond(error)
        ELSE /\ pc' = "convertRequest"
             /\ UNCHANGED resVars
  /\ UNCHANGED <<serverVars, concurrent, converterVars, clientClosed, cancellationToken, dialect, body,
                 messages, inputTokens, streamVars, synthVars>>

Validate ==
  /\ pc = "validate"
  /\ LET error == ValidationError(dialect, body)
     IN IF error # NoError
        THEN CatchAndRespond(error)
        ELSE /\ pc' = "getModel"
             /\ UNCHANGED resVars
  /\ UNCHANGED <<handlerVars, streamVars, synthVars>>

\* getVSCodeModel: vscode.lm.selectChatModels returns the model.
GetModel ==
  /\ pc = "getModel"
  /\ hostLog' = Append(hostLog, "selectChatModels")
  /\ pc' = "convertRequest"
  /\ UNCHANGED <<serverVars, concurrent, converterVars, clientClosed, cancellationToken, dialect, body,
                 messages, inputTokens, streamVars, synthVars,
                 resVars>>

\* A mutant of GetModelFails: the failure is rethrown as it is, not wrapped
\* as NotFound.
GetModelFailsUnwrapped ==
  /\ pc = "getModel"
  /\ \/ hostLog' = hostLog
     \/ hostLog' = Append(hostLog, "selectChatModels")
  /\ CatchAndRespond([name |-> "Error", code |-> Undefined,
                      message |-> PlainMessage])
  /\ UNCHANGED <<serverVars, concurrent, converterVars, clientClosed, cancellationToken, dialect, body,
                 messages, inputTokens, streamVars, synthVars>>

\* getVSCodeModel: the synthetic id has no configured model (nothing is
\* selected), or selectChatModels finds none or rejects; every failure is
\* rethrown as NotFound.
GetModelFails ==
  /\ pc = "getModel"
  /\ \/ hostLog' = hostLog
     \/ hostLog' = Append(hostLog, "selectChatModels")
  /\ CatchAndRespond(SpreadError("NotFound", "model_not_found"))
  /\ UNCHANGED <<serverVars, concurrent, converterVars, clientClosed, cancellationToken, dialect, body,
                 messages, inputTokens, streamVars, synthVars>>

\* convert...RequestToVSCodeRequest: the normalizer returns inputTokens.
NormalizedRequest(d, b) ==
  CASE d = "openai" -> convertOpenAIRequestToVSCodeRequest(b)
    [] d = "responses" -> convertResponsesRequestToVSCodeRequest(b)
    [] OTHER -> convertAnthropicRequestToVSCodeRequest(b)

ConvertRequest ==
  /\ pc = "convertRequest"
  /\ LET r == NormalizedRequest(dialect, body)
     IN /\ ~r.threw
        /\ messages' = r.messages
        /\ IF r.messages = <<>>
           THEN inputTokens' = 0 /\ UNCHANGED hostLog
           ELSE /\ inputTokens' \in InputTokenCounts
                /\ hostLog' = Append(hostLog, "countTokens")
  /\ pc' = "sendRequest"
  /\ UNCHANGED <<serverVars, concurrent, converterVars, clientClosed, cancellationToken, dialect, body,
                 streamVars, synthVars, resVars>>

\* The normalizer throws a TypeError on a null element; no token is counted.
ConvertRequestFails ==
  /\ pc = "convertRequest"
  /\ NormalizedRequest(dialect, body).threw
  /\ CatchAndRespond([name |-> "TypeError", code |-> Undefined,
                      message |-> PlainMessage])
  /\ UNCHANGED <<handlerVars, streamVars, synthVars>>

\* The synthesizer convertVSCodeResponseTo...Response calls.
Synthesizer(d, streaming) ==
  CASE d = "openai" -> IF streaming THEN "convertVSCodeStreamToOpenAIChunks"
                       ELSE "convertVSCodeTextToOpenAICompletion"
    [] d = "responses" -> IF streaming
                          THEN "convertVSCodeStreamToResponsesStream"
                          ELSE "convertVSCodeTextToResponsesObject"
    [] OTHER -> IF streaming THEN "convertVSCodeStreamToAnthropicStream"
                ELSE "convertVSCodeTextToAnthropicMessage"

\* The synthesizer convertVSCodeResponseTo...Response hands the stream to.
FirstSynthesizerStep ==
  IF ~isStreaming THEN "collect"
  ELSE CASE dialect = "openai" -> "chat_loop"
         [] dialect = "responses" -> "response.created"
         [] OTHER -> "message_start"

\* vsCodeModel.sendRequest resolves with the response stream.
SendRequest ==
  /\ pc = "sendRequest"
  /\ hostLog' = Append(hostLog, "sendRequest")
  /\ pc' = FirstSynthesizerStep
  /\ streamState' = "open"
  /\ iterators' = IF FirstSynthesizerStep \in {"chat_loop", "collect"}
                  THEN Append(iterators, Synthesizer(dialect, isStreaming))
                  ELSE iterators
  /\ cancellationToken' = "live"
  /\ UNCHANGED <<serverVars, concurrent, converterVars, clientClosed, dialect, body,
                 messages, inputTokens, parts, part, synthVars,
                 resVars>>

\* A mutant of SendRequestFails: a rejected request is sent once more.
SendRequestRetried ==
  /\ pc = "sendRequest"
  /\ hostLog' = Append(hostLog, "sendRequest")
  /\ IF \E i \in 1..Len(hostLog) : hostLog[i] = "sendRequest"
     THEN \E error \in HostErrors : CatchAndRespond(error)
     ELSE UNCHANGED <<pc, resVars>>
  /\ cancellationToken' = "live"
  /\ UNCHANGED <<serverVars, concurrent, converterVars, clientClosed, dialect, body,
                 messages, inputTokens, streamVars, synthVars>>

\* vsCodeModel.sendRequest rejects.
SendRequestFails ==
  /\ pc = "sendRequest"
  /\ hostLog' = Append(hostLog, "sendRequest")
  /\ \E error \in HostErrors : CatchAndRespond(error)
  /\ cancellationToken' = "live"
  /\ UNCHANGED <<serverVars, concurrent, converterVars, clientClosed, dialect, body,
                 messages, inputTokens, streamVars, synthVars>>

(* ---------------------------------------------------------------------- *)
(* OpenAI Chat, streaming: convertVSCodeStreamToOpenAIChunks and          *)
(* handleStreamingResponse                                                *)
(* ---------------------------------------------------------------------- *)

ZeroUsage ==
  [completion_tokens |-> 0, prompt_tokens |-> 0, total_tokens |-> 0]

\* A ChatCompletionChunk with one choice.
ChatCompletionChunk(delta, finish_reason, usage) ==
  [object |-> "chat.completion.chunk",
   choices |-> << [index |-> 0, delta |-> delta,
                   finish_reason |-> finish_reason] >>,
   usage |-> usage]

\* delta: {}
EmptyDelta == [k \in {} |-> ""]

\* The tool_calls entry of a chunk or a completion message.
ToolCallFunction(p) ==
  [id |-> p.callId, type |-> "function",
   function |-> [name |-> p.name, arguments |-> JSONStringify(p.input)]]

\* A mutant of ChunkDelta: every tool call gets index 0.
ChunkDeltaIndexZero(p, roleSent, index) ==
  CASE isTextPart(p) ->
         IF roleSent THEN [content |-> p.value]
         ELSE [role |-> "assistant", content |-> p.value]
    [] isToolCallPart(p) ->
         [tool_calls |-> << [index |-> 0] @@ ToolCallFunction(p) >>]
    [] OTHER -> EmptyDelta

\* A mutant of ChunkDelta: every text chunk carries the role.
ChunkDeltaRoleOnEveryText(p, roleSent, index) ==
  CASE isTextPart(p) -> [role |-> "assistant", content |-> p.value]
    [] isToolCallPart(p) ->
         [tool_calls |-> << [index |-> index] @@ ToolCallFunction(p) >>]
    [] OTHER -> EmptyDelta

\* The delta the loop body builds for one fragment.
ChunkDelta(p, roleSent, index) ==
  CASE isTextPart(p) ->
         IF ~roleSent
         THEN [role |-> "assistant", content |-> p.value]
         ELSE [content |-> p.value]
    [] isToolCallPart(p) ->
         [tool_calls |-> << [index |-> index] @@ ToolCallFunction(p) >>]
    [] OTHER -> EmptyDelta

\* A mutant of FinishReason: the tool-call value is never reported.
FinishReasonAlwaysStop(toolCalled) == "stop"

\* finish_reason: isToolCalled ? 'tool_calls' : 'stop'
FinishReason(toolCalled) == IF toolCalled THEN "tool_calls" ELSE "stop"

\* A mutant of OutputTokensOfPart: tool calls add no tokens.
OutputTokensOfTextOnly(p) == IF isTextPart(p) THEN countTokens(p.value) ELSE 0

\* The tokens one fragment adds to outputTokens.
OutputTokensOfPart(p) ==
  CASE isTextPart(p) -> countTokens(p.value)
    [] isToolCallPart(p) -> countTokens(JSONStringifyPart(p))
    [] OTHER -> 0

\* One loop iteration: the stream yields a fragment, the generator yields
\* its chunk and the handler writes it.
ChatChunk ==
  /\ pc = "chat_loop"
  /\ Len(parts) < MaxParts
  /\ \E p \in StreamParts :
       /\ parts' = Append(parts, p)
       /\ out' = Append(out, DataFrame(ChatCompletionChunk(
                    ChunkDelta(p, isRoleSent, toolCallIndex), Null, ZeroUsage)))
       /\ isRoleSent' = (isRoleSent \/ isTextPart(p))
       /\ toolCallIndex' =
            IF isToolCallPart(p) THEN toolCallIndex + 1 ELSE toolCallIndex
       /\ isToolCalled' = (isToolCalled \/ isToolCallPart(p))
       /\ outputTokens' = outputTokens + OutputTokensOfPart(p)
  /\ UNCHANGED <<pc, handlerVars, part, streamState, iterators, textBuffer, toolCalls,
                 anthropicVars,
                 statusCode, jsonBody, ended, unhandled, thrown>>

\* The stream ends: the generator yields the final chunk, the handler
\* writes it.
ChatFinalChunk ==
  /\ pc = "chat_loop"
  /\ out' = Append(out, DataFrame(ChatCompletionChunk(
               EmptyDelta, FinishReason(isToolCalled),
               [completion_tokens |-> outputTokens,
                prompt_tokens |-> inputTokens,
                total_tokens |-> inputTokens + outputTokens])))
  /\ pc' = "chat_return"
  /\ streamState' = "ended"
  /\ UNCHANGED <<handlerVars, parts, part, iterators, synthVars,
                 statusCode, jsonBody, ended, unhandled, thrown>>

\* The generator returns: the handler writes the sentinel and ends.
\* A mutant of ChatDone: the stream is ended without the sentinel.
ChatDoneWithoutSentinel ==
  /\ pc = "chat_return"
  /\ ended' = TRUE
  /\ pc' = "done"
  /\ UNCHANGED <<handlerVars, streamVars, synthVars,
                 out, statusCode, jsonBody, unhandled, thrown>>

ChatDone ==
  /\ pc = "chat_return"
  /\ out' = Append(out, DoneFrame)
  /\ ended' = TRUE
  /\ pc' = "done"
  /\ UNCHANGED <<handlerVars, streamVars, synthVars,
                 statusCode, jsonBody, unhandled, thrown>>

\* The stream throws: the handler's catch writes the error and the
\* sentinel, its finally ends the response.
ChatStreamError ==
  /\ pc = "chat_loop"
  /\ \E error \in HostErrors :
       /\ thrown' = error
       /\ out' = out \o << DataFrame([error |->
                             handleChatCompletionError(error).apiError]),
                           DoneFrame >>
  /\ streamState' = "failed"
  /\ ended' = TRUE
  /\ pc' = "done"
  /\ UNCHANGED <<handlerVars, parts, part, iterators, synthVars,
                 statusCode, jsonBody, unhandled>>

(* ---------------------------------------------------------------------- *)
(* OpenAI Chat, non-streaming: convertVSCodeTextToOpenAICompletion        *)
(* ---------------------------------------------------------------------- *)

\* One loop iteration over vscodeResponse.stream.
ChatCollect ==
  /\ pc = "collect"
  /\ dialect = "openai"
  /\ Len(parts) < MaxParts
  /\ \E p \in StreamParts :
       /\ parts' = Append(parts, p)
       /\ textBuffer' = IF isTextPart(p) THEN textBuffer \o p.value
                        ELSE textBuffer
       /\ toolCalls' = IF isToolCallPart(p)
                       THEN Append(toolCalls, ToolCallFunction(p))
                       ELSE toolCalls
       /\ isToolCalled' = (isToolCalled \/ isToolCallPart(p))
       /\ outputTokens' = outputTokens + OutputTokensOfPart(p)
  /\ UNCHANGED <<pc, handlerVars, part, streamState, iterators, isRoleSent,
                 toolCallIndex, anthropicVars, resVars>>

\* The ChatCompletion returned when the stream has ended.
ChatCompletion(text, calls, toolCalled, promptTokens, completionTokens) ==
  [object |-> "chat.completion",
   choices |-> << [index |-> 0,
                   message |-> IF toolCalled
                               THEN [role |-> "assistant", content |-> text,
                                     tool_calls |-> calls]
                               ELSE [role |-> "assistant", content |-> text],
                   finish_reason |-> FinishReason(toolCalled)] >>,
   usage |-> [completion_tokens |-> completionTokens,
              prompt_tokens |-> promptTokens,
              total_tokens |-> promptTokens + completionTokens]]

\* The stream ends: res.json(completion).
ChatCompletionDone ==
  /\ pc = "collect"
  /\ dialect = "openai"
  /\ jsonBody' = ChatCompletion(textBuffer, toolCalls, isToolCalled,
                                inputTokens, outputTokens)
  /\ ended' = TRUE
  /\ pc' = "done"
  /\ streamState' = "ended"
  /\ UNCHANGED <<handlerVars, parts, part, iterators, synthVars, out, statusCode,
                 unhandled, thrown>>

\* The stream throws while a non-streaming synthesizer collects it: the
\* handler's catch answers with the mapped error.
CollectError ==
  /\ pc = "collect"
  /\ \E error \in HostErrors : CatchAndRespond(error)
  /\ streamState' = "failed"
  /\ UNCHANGED <<handlerVars, parts, part, iterators, synthVars>>

(* ---------------------------------------------------------------------- *)
(* OpenAI Responses: convertVSCodeStreamToResponsesStream,                *)
(* convertVSCodeTextToResponsesObject and handleStreamingResponse         *)
(* ---------------------------------------------------------------------- *)

\* A mutant of OutputText: the part is built without the buffered text.
OutputTextWithoutBuffer(text) == [type |-> "output_text", text |-> ""]

OutputText(text) == [type |-> "output_text", text |-> text]

MessageItem(status, parts_) ==
  [type |-> "message", status |-> status, role |-> "assistant",
   content |-> parts_]

ResponsesUsage(promptTokens, completionTokens) ==
  [input_tokens |-> promptTokens, output_tokens |-> completionTokens,
   total_tokens |-> promptTokens + completionTokens]

\* The events yielded before the stream is read, in order.
ResponsesHead ==
  << "response.created", "response.in_progress",
     "response.output_item.added", "response.content_part.added" >>

\* The events yielded after output_text.done, in order.
\* A mutant of ResponsesTail: the item is closed before its content part.
ResponsesTailItemFirst ==
  << "response.output_item.done", "response.content_part.done",
     "response.completed" >>

ResponsesTail ==
  << "response.content_part.done", "response.output_item.done",
     "response.completed" >>

\* The lifecycle event of the given type.
ResponsesEvent(type, text, promptTokens, completionTokens) ==
  CASE type \in {"response.created", "response.in_progress"} ->
         [type |-> type,
          response |-> [object |-> "response", status |-> "in_progress",
                        output |-> <<>>]]
    [] type = "response.output_item.added" ->
         [type |-> type, output_index |-> 0,
          item |-> MessageItem("in_progress", <<>>)]
    [] type = "response.content_part.added" ->
         [type |-> type, output_index |-> 0, content_index |-> 0,
          part |-> OutputText("")]
    [] type = "response.output_text.delta" ->
         [type |-> type, output_index |-> 0, content_index |-> 0,
          delta |-> text]
    [] type = "response.output_text.done" ->
         [type |-> type, output_index |-> 0, content_index |-> 0,
          text |-> text]
    [] type = "response.content_part.done" ->
         [type |-> type, output_index |-> 0, content_index |-> 0,
          part |-> OutputText(text)]
    [] type = "response.output_item.done" ->
         [type |-> type, output_index |-> 0,
          item |-> MessageItem("completed", << OutputText(text) >>)]
    [] OTHER ->
         [type |-> "response.completed",
          response |-> [object |-> "response", status |-> "completed",
                        output |-> << MessageItem("completed",
                                                  << OutputText(text) >>) >>,
                        usage |-> ResponsesUsage(promptTokens,
                                                 completionTokens)]]

\* res.write(`event: ${event.type}\n`); res.write(`data: ...\n\n`)
ResponsesFrames(event) == << EventFrame(event.type), DataFrame(event) >>

\* The step after yielding the i-th event of a fixed run of events.
AfterEvent(run, i, last) == IF i < Len(run) THEN run[i + 1] ELSE last

\* One of the four events before the loop is yielded and written.
ResponsesLifecycleHead ==
  /\ \E i \in 1..Len(ResponsesHead) :
       /\ pc = ResponsesHead[i]
       /\ pc' = AfterEvent(ResponsesHead, i, "responses_loop")
  /\ iterators' = IF pc' = "responses_loop"
                  THEN Append(iterators, Synthesizer(dialect, isStreaming))
                  ELSE iterators
  /\ out' = out \o ResponsesFrames(
               ResponsesEvent(pc, textBuffer, inputTokens, outputTokens))
  /\ UNCHANGED <<handlerVars, parts, part, streamState, synthVars,
                 statusCode, jsonBody, ended, unhandled, thrown>>

\* The stream yields a text fragment: its delta is yielded and written.
ResponsesTextDelta ==
  /\ pc = "responses_loop"
  /\ Len(parts) < MaxParts
  /\ \E p \in StreamParts :
       /\ isTextPart(p)
       /\ parts' = Append(parts, p)
       /\ textBuffer' = textBuffer \o p.value
       /\ outputTokens' = outputTokens + countTokens(p.value)
       /\ out' = out \o ResponsesFrames(
                    ResponsesEvent("response.output_text.delta", p.value,
                                   inputTokens, outputTokens))
  /\ UNCHANGED <<pc, handlerVars, part, streamState, iterators, chatVars, anthropicVars,
                 statusCode, jsonBody, ended, unhandled, thrown>>

\* The stream yields a tool call or another part: tokens are counted for a
\* tool call, nothing is yielded.
ResponsesNoEvent ==
  /\ pc = "responses_loop"
  /\ Len(parts) < MaxParts
  /\ \E p \in StreamParts :
       /\ ~isTextPart(p)
       /\ parts' = Append(parts, p)
       /\ outputTokens' =
            IF isToolCallPart(p)
            THEN outputTokens + countTokens(JSONStringifyPart(p))
            ELSE outputTokens
  /\ UNCHANGED <<pc, handlerVars, part, streamState, iterators, textBuffer, chatVars,
                 anthropicVars, resVars>>

\* The stream ends: output_text.done is yielded and written.
ResponsesTextDone ==
  /\ pc = "responses_loop"
  /\ out' = out \o ResponsesFrames(
               ResponsesEvent("response.output_text.done", textBuffer,
                              inputTokens, outputTokens))
  /\ pc' = ResponsesTail[1]
  /\ streamState' = "ended"
  /\ UNCHANGED <<handlerVars, parts, part, iterators, synthVars,
                 statusCode, jsonBody, ended, unhandled, thrown>>

\* One of the three closing events is yielded and written.
ResponsesLifecycleTail ==
  /\ \E i \in 1..Len(ResponsesTail) :
       /\ pc = ResponsesTail[i]
       /\ pc' = AfterEvent(ResponsesTail, i, "responses_return")
  /\ out' = out \o ResponsesFrames(
               ResponsesEvent(pc, textBuffer, inputTokens, outputTokens))
  /\ UNCHANGED <<handlerVars, streamVars, synthVars,
                 statusCode, jsonBody, ended, unhandled, thrown>>

\* The generator returns: the handler's finally ends the response.
ResponsesDone ==
  /\ pc = "responses_return"
  /\ ended' = TRUE
  /\ pc' = "done"
  /\ UNCHANGED <<handlerVars, streamVars, synthVars,
                 out, statusCode, jsonBody, unhandled, thrown>>

\* A mutant of ResponsesStreamError: the error event is written and the
\* loop goes on.
ResponsesStreamErrorSwallowed ==
  /\ pc = "responses_loop"
  /\ thrown = NoError
  /\ \E error \in HostErrors :
       /\ thrown' = error
       /\ out' = out \o << EventFrame("error"),
                           DataFrame([type |-> "error",
                                      error |->
                                        handleResponsesError(error).apiError]) >>
  /\ UNCHANGED <<pc, handlerVars, streamVars, synthVars,
                 statusCode, jsonBody, ended, unhandled>>

\* The stream throws: the handler's catch writes the error event, its
\* finally ends the response.
ResponsesStreamError ==
  /\ pc = "responses_loop"
  /\ \E error \in HostErrors :
       /\ thrown' = error
       /\ out' = out \o << EventFrame("error"),
                           DataFrame([type |-> "error",
                                      error |->
                                        handleResponsesError(error).apiError]) >>
  /\ streamState' = "failed"
  /\ ended' = TRUE
  /\ pc' = "done"
  /\ UNCHANGED <<handlerVars, parts, part, iterators, synthVars,
                 statusCode, jsonBody, unhandled>>

\* Non-streaming: one loop iteration over vscodeResponse.stream.
ResponsesCollect ==
  /\ pc = "collect"
  /\ dialect = "responses"
  /\ Len(parts) < MaxParts
  /\ \E p \in StreamParts :
       /\ parts' = Append(parts, p)
       /\ textBuffer' = IF isTextPart(p) THEN textBuffer \o p.value
                        ELSE textBuffer
       /\ outputTokens' = outputTokens + OutputTokensOfPart(p)
  /\ UNCHANGED <<pc, handlerVars, part, streamState, iterators, chatVars, anthropicVars,
                 resVars>>

\* The ResponseObject returned when the stream has ended.
ResponseObject(text, promptTokens, completionTokens) ==
  [object |-> "response", status |-> "completed",
   output |-> << MessageItem("completed", << OutputText(text) >>) >>,
   usage |-> ResponsesUsage(promptTokens, completionTokens)]

\* The stream ends: res.json(responseObject).
ResponsesObjectDone ==
  /\ pc = "collect"
  /\ dialect = "responses"
  /\ jsonBody' = ResponseObject(textBuffer, inputTokens, outputTokens)
  /\ ended' = TRUE
  /\ pc' = "done"
  /\ streamState' = "ended"
  /\ UNCHANGED <<handlerVars, parts, part, iterators, synthVars, out, statusCode,
                 unhandled, thrown>>

(* ---------------------------------------------------------------------- *)
(* Anthropic, streaming: convertVSCodeStreamToAnthropicStream and         *)
(* handleStreamingResponse                                                *)
(* ---------------------------------------------------------------------- *)

MessageStart(promptTokens) ==
  [type |-> "message_start",
   message |-> [type |-> "message", role |-> "assistant", content |-> <<>>,
                stop_reason |-> Null,
                usage |-> [input_tokens |-> promptTokens,
                           output_tokens |-> 0]]]

TextBlockStart(index) ==
  [type |-> "content_block_start", index |-> index,
   content_block |-> [type |-> "text", text |-> ""]]

ToolUseBlockStart(index, p) ==
  [type |-> "content_block_start", index |-> index,
   content_block |-> [type |-> "tool_use", id |-> p.callId, name |-> p.name,
                      input |-> EmptyObject]]

TextDelta(index, p) ==
  [type |-> "content_block_delta", index |-> index,
   delta |-> [type |-> "text_delta", text |-> p.value]]

InputJsonDelta(index, p) ==
  [type |-> "content_block_delta", index |-> index,
   delta |-> [type |-> "input_json_delta",
              partial_json |-> JSONStringify(p.input)]]

ContentBlockStop(index) == [type |-> "content_block_stop", index |-> index]

MessageDelta(reason, promptTokens, completionTokens) ==
  [type |-> "message_delta",
   delta |-> [stop_reason |-> reason, stop_sequence |-> Null],
   usage |-> [input_tokens |-> promptTokens,
              output_tokens |-> completionTokens]]

MessageStop == [type |-> "message_stop"]

\* A mutant of NextContentIndex: the index is never advanced.
StuckContentIndex(index) == index

\* contentIndex++ after a block is closed.
NextContentIndex(index) == index + 1

\* The generator yields an event and the handler writes it.
YieldAnthropic(event) ==
  /\ out' = Append(out, DataFrame(event))
  /\ UNCHANGED <<statusCode, jsonBody, ended, unhandled, thrown>>

\* A mutant of TakePart: the next fragment is taken while the events of the
\* last one are still being yielded.
TakePartAhead(p) == Len(parts) < MaxParts /\ parts' = Append(parts, p) /\ part' = p /\ UNCHANGED <<streamState, iterators>>

\* The stream yields fragment p to the generator's for-await.
TakePart(p) ==
  /\ pc = "anthropic_loop"
  /\ Len(parts) < MaxParts
  /\ parts' = Append(parts, p)
  /\ part' = p
  /\ UNCHANGED <<streamState, iterators>>

\* message_start is yielded before the stream is read.
AnthropicMessageStart ==
  /\ pc = "message_start"
  /\ YieldAnthropic(MessageStart(inputTokens))
  /\ pc' = "anthropic_loop"
  /\ iterators' = Append(iterators, Synthesizer(dialect, isStreaming))
  /\ UNCHANGED <<handlerVars, parts, part, streamState, synthVars>>

\* A text fragment arrives outside a text block: the block is opened.
AnthropicTextBlockStart ==
  /\ ~isInsideTextBlock
  /\ \E p \in StreamParts : isTextPart(p) /\ TakePart(p)
  /\ YieldAnthropic(TextBlockStart(contentIndex))
  /\ isInsideTextBlock' = TRUE
  /\ pc' = "text_delta"
  /\ UNCHANGED <<handlerVars, outputTokens, textBuffer, chatVars,
                 stopReason, contentIndex, content>>

\* The delta of the fragment that opened the block.
AnthropicFirstTextDelta ==
  /\ pc = "text_delta"
  /\ YieldAnthropic(TextDelta(contentIndex, part))
  /\ outputTokens' = outputTokens + countTokens(part.value)
  /\ pc' = "anthropic_loop"
  /\ UNCHANGED <<handlerVars, streamVars, textBuffer, chatVars,
                 anthropicVars>>

\* A text fragment arrives inside the open text block.
AnthropicTextDelta ==
  /\ isInsideTextBlock
  /\ \E p \in StreamParts :
       /\ isTextPart(p)
       /\ TakePart(p)
       /\ YieldAnthropic(TextDelta(contentIndex, p))
       /\ outputTokens' = outputTokens + countTokens(p.value)
  /\ UNCHANGED <<pc, handlerVars, textBuffer, chatVars, anthropicVars>>

\* A tool call arrives inside a text block: the text block is closed first.
\* A mutant of AnthropicTextBlockStopForTool: the open text block is not
\* closed when a tool call arrives.
AnthropicToolInsideTextBlock ==
  /\ isInsideTextBlock
  /\ \E p \in StreamParts : isToolCallPart(p) /\ TakePart(p)
  /\ pc' = "tool_use_start"
  /\ UNCHANGED <<handlerVars, synthVars, resVars>>

AnthropicTextBlockStopForTool ==
  /\ isInsideTextBlock
  /\ \E p \in StreamParts : isToolCallPart(p) /\ TakePart(p)
  /\ YieldAnthropic(ContentBlockStop(contentIndex))
  /\ isInsideTextBlock' = FALSE
  /\ contentIndex' = NextContentIndex(contentIndex)
  /\ pc' = "tool_use_start"
  /\ UNCHANGED <<handlerVars, outputTokens, textBuffer, chatVars,
                 stopReason, content>>

\* The tool_use block is opened, for a tool call that arrives outside a
\* text block or after the text block was closed for it.
AnthropicToolUseStart ==
  /\ \/ /\ ~isInsideTextBlock
        /\ \E p \in StreamParts : isToolCallPart(p) /\ TakePart(p)
     \/ /\ pc = "tool_use_start"
        /\ UNCHANGED streamVars
  /\ stopReason' = "tool_use"
  /\ YieldAnthropic(ToolUseBlockStart(contentIndex, part'))
  /\ pc' = "tool_use_delta"
  /\ UNCHANGED <<handlerVars, outputTokens, textBuffer, chatVars,
                 contentIndex, isInsideTextBlock, content>>

\* The input_json_delta of the tool call.
AnthropicToolUseDelta ==
  /\ pc = "tool_use_delta"
  /\ YieldAnthropic(InputJsonDelta(contentIndex, part))
  /\ pc' = "tool_use_stop"
  /\ UNCHANGED <<handlerVars, streamVars, synthVars>>

\* The tool_use block is closed and the tool call's tokens are counted.
AnthropicToolUseStop ==
  /\ pc = "tool_use_stop"
  /\ YieldAnthropic(ContentBlockStop(contentIndex))
  /\ contentIndex' = NextContentIndex(contentIndex)
  /\ outputTokens' = outputTokens + countTokens(JSONStringifyPart(part))
  /\ pc' = "anthropic_loop"
  /\ UNCHANGED <<handlerVars, streamVars, textBuffer, chatVars,
                 stopReason, isInsideTextBlock, content>>

\* A part that is neither text nor tool call: nothing is yielded.
AnthropicNoEvent ==
  /\ \E p \in StreamParts : ~isTextPart(p) /\ ~isToolCallPart(p) /\ TakePart(p)
  /\ UNCHANGED <<pc, handlerVars, synthVars, resVars>>

\* The stream ends inside a text block: the block is closed.
AnthropicLastTextBlockStop ==
  /\ pc = "anthropic_loop"
  /\ isInsideTextBlock
  /\ YieldAnthropic(ContentBlockStop(contentIndex))
  /\ contentIndex' = NextContentIndex(contentIndex)
  /\ pc' = "message_delta"
  /\ streamState' = "ended"
  /\ UNCHANGED <<handlerVars, parts, part, iterators, outputTokens, textBuffer, chatVars,
                 stopReason, isInsideTextBlock, content>>

\* message_delta, when the stream ends outside a text block or after the
\* last text block was closed.
AnthropicMessageDelta ==
  /\ \/ /\ pc = "anthropic_loop"
        /\ ~isInsideTextBlock
        /\ streamState' = "ended"
     \/ /\ pc = "message_delta"
        /\ UNCHANGED streamState
  /\ YieldAnthropic(MessageDelta(stopReason, inputTokens, outputTokens))
  /\ pc' = "message_stop"
  /\ UNCHANGED <<handlerVars, parts, part, iterators, synthVars>>

\* A mutant of AnthropicMessageStop: the generator returns without the
\* terminal event.
AnthropicReturnWithoutMessageStop ==
  /\ pc = "message_stop"
  /\ pc' = "anthropic_return"
  /\ UNCHANGED <<handlerVars, streamVars, synthVars, resVars>>

AnthropicMessageStop ==
  /\ pc = "message_stop"
  /\ YieldAnthropic(MessageStop)
  /\ pc' = "anthropic_return"
  /\ UNCHANGED <<handlerVars, streamVars, synthVars>>

\* The generator returns: the handler's finally ends the response.
AnthropicDone ==
  /\ pc = "anthropic_return"
  /\ ended' = TRUE
  /\ pc' = "done"
  /\ UNCHANGED <<handlerVars, streamVars, synthVars,
                 out, statusCode, jsonBody, unhandled, thrown>>

\* The stream throws: the handler's catch maps the error and writes the
\* error event, its finally ends the response.  When handleMessageError
\* throws, no event is written, finally still ends the response, and the
\* outer catch can send nothing on the ended response: the handler's
\* promise rejects.
AnthropicStreamError ==
  /\ pc = "anthropic_loop"
  /\ \E error \in HostErrors :
       LET r == handleMessageError(error)
       IN /\ thrown' = error
          /\ IF r.threw
             THEN /\ unhandled' = TRUE
                  /\ UNCHANGED out
             ELSE /\ out' = Append(out, DataFrame([type |-> "error",
                                                   error |-> r.errorObject]))
                  /\ UNCHANGED unhandled
  /\ streamState' = "failed"
  /\ ended' = TRUE
  /\ pc' = "done"
  /\ UNCHANGED <<handlerVars, parts, part, iterators, synthVars, statusCode, jsonBody>>

(* ---------------------------------------------------------------------- *)
(* Anthropic, non-streaming: convertVSCodeTextToAnthropicMessage          *)
(* ---------------------------------------------------------------------- *)

TextBlock(text) == [type |-> "text", text |-> text]

\* A mutant of ToolUseBlock: the block is built without the call id.
ToolUseBlockWithoutId(p) == [type |-> "tool_use", id |-> "", name |-> p.name, input |-> p.input]

ToolUseBlock(p) ==
  [type |-> "tool_use", id |-> p.callId, name |-> p.name, input |-> p.input]

\* A mutant of FlushTextBuffer: the buffered text is dropped.
DropTextBuffer(blocks, text) == blocks

\* content after pushing the text buffer, if it is not empty.
FlushTextBuffer(blocks, text) ==
  IF text # "" THEN Append(blocks, TextBlock(text)) ELSE blocks

\* One loop iteration over vscodeResponse.stream.
AnthropicCollect ==
  /\ pc = "collect"
  /\ dialect = "anthropic"
  /\ Len(parts) < MaxParts
  /\ \E p \in StreamParts :
       /\ parts' = Append(parts, p)
       /\ textBuffer' = CASE isTextPart(p) -> textBuffer \o p.value
                          [] isToolCallPart(p) -> ""
                          [] OTHER -> textBuffer
       /\ content' = IF isToolCallPart(p)
                     THEN Append(FlushTextBuffer(content, textBuffer),
                                 ToolUseBlock(p))
                     ELSE content
       /\ isToolCalled' = (isToolCalled \/ isToolCallPart(p))
       /\ outputTokens' = outputTokens + OutputTokensOfPart(p)
  /\ UNCHANGED <<pc, handlerVars, part, streamState, iterators, isRoleSent,
                 toolCallIndex, toolCalls, stopReason, contentIndex,
                 isInsideTextBlock, resVars>>

\* stop_reason: isToolCalled ? 'tool_use' : 'end_turn'
StopReason(toolCalled) == IF toolCalled THEN "tool_use" ELSE "end_turn"

\* A mutant of AnthropicMessage: empty content is returned as it is.
MessageOfNoBlock(blocks, text, toolCalled, promptTokens, completionTokens) ==
  [type |-> "message", role |-> "assistant",
   content |-> FlushTextBuffer(blocks, text),
   stop_reason |-> StopReason(toolCalled),
   usage |-> [input_tokens |-> promptTokens,
              output_tokens |-> completionTokens]]

\* The Message returned when the stream has ended.
AnthropicMessage(blocks, text, toolCalled, promptTokens, completionTokens) ==
  LET flushed == FlushTextBuffer(blocks, text)
  IN [type |-> "message", role |-> "assistant",
      content |-> IF flushed = <<>> THEN << TextBlock("") >> ELSE flushed,
      stop_reason |-> StopReason(toolCalled),
      usage |-> [input_tokens |-> promptTokens,
                 output_tokens |-> completionTokens]]

\* The stream ends: res.json(message).
AnthropicMessageDone ==
  /\ pc = "collect"
  /\ dialect = "anthropic"
  /\ jsonBody' = AnthropicMessage(content, textBuffer, isToolCalled,
                                  inputTokens, outputTokens)
  /\ ended' = TRUE
  /\ pc' = "done"
  /\ streamState' = "ended"
  /\ UNCHANGED <<handlerVars, parts, part, iterators, synthVars, out, statusCode,
                 unhandled, thrown>>

(* ---------------------------------------------------------------------- *)
(* Specification                                                          *)
(* ---------------------------------------------------------------------- *)

\* The client closes its connection while a streaming response is being
\* written. No handler listens for it, and the CancellationTokenSource of
\* the request is referenced by nothing that could cancel it.
ClientCloses ==
  /\ isStreaming
  /\ streamState = "open"
  /\ ~clientClosed
  /\ clientClosed' = TRUE
  /\ UNCHANGED <<pc, serverVars, concurrent, converterVars, cancellationToken, dialect, body, hostLog,
                 messages, inputTokens, streamVars, synthVars, resVars>>

Next ==
  \/ Validate
  \/ ClientCloses
  \/ GetModel
  \/ GetModelFails
  \/ ConvertRequest
  \/ ConvertRequestFails
  \/ SendRequest
  \/ SendRequestFails
  \/ ChatChunk
  \/ ChatFinalChunk
  \/ ChatDone
  \/ ChatStreamError
  \/ ChatCollect
  \/ ChatCompletionDone
  \/ CollectError
  \/ ResponsesLifecycleHead
  \/ ResponsesTextDelta
  \/ ResponsesNoEvent
  \/ ResponsesTextDone
  \/ ResponsesLifecycleTail
  \/ ResponsesDone
  \/ ResponsesStreamError
  \/ ResponsesCollect
  \/ ResponsesObjectDone
  \/ AnthropicMessageStart
  \/ AnthropicTextBlockStart
  \/ AnthropicFirstTextDelta
  \/ AnthropicTextDelta
  \/ AnthropicTextBlockStopForTool
  \/ AnthropicToolUseStart
  \/ AnthropicToolUseDelta
  \/ AnthropicToolUseStop
  \/ AnthropicNoEvent
  \/ AnthropicLastTextBlockStop
  \/ AnthropicMessageDelta
  \/ AnthropicMessageStop
  \/ AnthropicDone
  \/ AnthropicStreamError
  \/ AnthropicCollect
  \/ AnthropicMessageDone

Spec == Init /\ [][Next]_vars


(* ---------------------------------------------------------------------- *)
(* The normalizers and the model lookup on their own                      *)
(* ---------------------------------------------------------------------- *)

\* A normalizer or the lookup is about to be called with a request.
ConverterInit ==
  /\ dialect \in Dialects
  /\ body = NoBody
  /\ \/ /\ pc = "convert"
        /\ request \in ConverterRequests(dialect)
        /\ modelManager = NoModelManager
     \/ /\ pc = "lookup"
        /\ request \in { r \in LookupRequests : r.dialect = dialect }
        /\ modelManager \in ModelManagers
  /\ canonical = NotConverted
  /\ resolved = NotResolved
  /\ hostLog = <<>>
  /\ messages = <<>>
  /\ parts = <<>>
  /\ part = UnknownPart
  /\ streamState = "none"
  /\ iterators = <<>>
  /\ inputTokens = 0
  /\ outputTokens = 0
  /\ isRoleSent = FALSE
  /\ toolCallIndex = 0
  /\ isToolCalled = FALSE
  /\ stopReason = "end_turn"
  /\ contentIndex = 0
  /\ isInsideTextBlock = FALSE
  /\ textBuffer = ""
  /\ toolCalls = <<>>
  /\ content = <<>>
  /\ out = <<>>
  /\ statusCode = 200
  /\ jsonBody = NoBody
  /\ ended = FALSE
  /\ unhandled = FALSE
  /\ thrown = NoError
  /\ clientClosed = FALSE
  /\ cancellationToken = "none"
  /\ NoExtension

\* convert...RequestToVSCodeRequest(body, vsCodeModel)
Convert ==
  /\ pc = "convert"
  /\ canonical' = convertRequestToVSCodeRequest(request)
  /\ pc' = "converted"
  /\ UNCHANGED <<serverVars, concurrent, request, modelManager, resolved, clientClosed, cancellationToken,
                 dialect, body, hostLog, messages, inputTokens, streamVars, synthVars,
                 resVars>>

\* getVSCodeModel(body.model, provider)
Lookup ==
  /\ pc = "lookup"
  /\ resolved' \in getVSCodeModel(request.model, request.provider, modelManager)
  /\ pc' = "resolved"
  /\ UNCHANGED <<serverVars, concurrent, request, modelManager, canonical, clientClosed, cancellationToken,
                 dialect, body, hostLog, messages, inputTokens, streamVars, synthVars,
                 resVars>>

ConverterNext == Convert \/ Lookup

ConverterSpec == ConverterInit /\ [][ConverterNext]_vars


(* ---------------------------------------------------------------------- *)
(* ServerManager, the server commands, activation and deactivation        *)
(* ---------------------------------------------------------------------- *)

\* const MAX_PORT_ATTEMPTS = 10
MAX_PORT_ATTEMPTS == 10

\* The values the setting vscode-lm-proxy.port takes: the default.
ConfiguredPorts == {4000}

\* getConfiguredPort()
getConfiguredPort == configuredPort

\* getServerUrl() returned null.
NullUrl == "null"

\* A mutant of AttemptPort: every attempt tries the configured port.
AttemptPortWithoutIncrement(startPort, attempt) == startPort

\* const port = startPort + attempt
AttemptPort(startPort, attempt) == startPort + attempt

\* One app.listen(port) of tryStartOnPort with what came of it: pending,
\* bound, in use (EADDRINUSE) or error (any other error event).
Listen(port, result) == [port |-> port, result |-> result]

\* No error was caught.
NoLastError == [message |-> "none", port |-> NullPort]

\* new Error(`Port ${port} is already in use`)
AlreadyInUse(port) == [message |-> "already in use", port |-> port]

\* new Error(`Server startup error: ${err.message}`)
StartupError(port) == [message |-> "startup error", port |-> port]

\* new Error(`Server stop error: ${err.message}`)
StopError == [message |-> "stop error", port |-> NullPort]

\* A start() call. The server of its latest app.listen is identified with
\* the call: the servers of its earlier attempts failed to bind and are
\* referenced by nothing. attempt is the loop variable; socket is none
\* (no listen was made), binding, listening, closed or failed; tried are
\* the listens made, in order; alone says that no other call was in
\* progress while this one was; before is the manager at the call.
StartCall(origin, status, socket, tried, alone) ==
  [op |-> "start", origin |-> origin, status |-> status,
   startPort |-> getConfiguredPort, attempt |-> 0, socket |-> socket,
   tried |-> tried, target |-> NullServer, error |-> NoLastError,
   alone |-> alone, before |-> <<server, _isRunning, _currentPort>>]

\* A stop() call; target is the server close() was called on and error
\* what close() will call back with.
StopCall(origin, status, target, error, alone) ==
  [op |-> "stop", origin |-> origin, status |-> status,
   startPort |-> NullPort, attempt |-> 0, socket |-> "none",
   tried |-> <<>>, target |-> target, error |-> error,
   alone |-> alone, before |-> <<server, _isRunning, _currentPort>>]

CallIds == DOMAIN managerCalls

StartCalls == { i \in CallIds : managerCalls[i].op = "start" }

StopCalls == { i \in CallIds : managerCalls[i].op = "stop" }

\* The calls whose promise is not settled.
InFlight == { i \in CallIds : managerCalls[i].status = "pending" }

\* The port of the latest listen of a start() call.
PortOf(i) == AttemptPort(managerCalls[i].startPort, managerCalls[i].attempt)

\* The servers created by the manager that are listening.
Listening == { i \in StartCalls : managerCalls[i].socket = "listening" }

\* A listening server of the manager holds the port.
HeldByManager(port) == \E i \in Listening : PortOf(i) = port

\* isRunning()
isRunning == _isRunning

\* getCurrentPort()
getCurrentPort == _currentPort

\* A mutant of getServerUrl: the URL is built from the configured port.
getServerUrlOfConfiguredPort == IF ~_isRunning THEN NullUrl ELSE "http://localhost:" \o ToString(getConfiguredPort)

\* getServerUrl()
getServerUrl ==
  IF ~_isRunning \/ _currentPort = NullPort
    THEN NullUrl
    ELSE "http://localhost:" \o ToString(_currentPort)

\* The calls in progress are no longer alone once another call is made.
Overlapped ==
  [i \in CallIds |->
     IF i \in InFlight
       THEN [managerCalls[i] EXCEPT !.alone = FALSE]
       ELSE managerCalls[i]]

\* The latest listen of a call is given its result.
Tried(i, result) ==
  [managerCalls[i].tried EXCEPT ![Len(managerCalls[i].tried)].result = result]

\* context.globalState.update('serverRunning', ..) of the command that
\* awaited the call, once the call has resolved.
FlagAfter(call) ==
  IF call.origin = "command"
    THEN call.op = "start"
    ELSE serverRunning

\* start(): returns at once when running, otherwise makes the first
\* app.listen on the configured port and awaits it.
start(origin) ==
  /\ Len(managerCalls) < MaxCalls
  /\ IF _isRunning
       THEN managerCalls' =
              Append(Overlapped,
                     StartCall(origin, "resolved", "none", <<>>, InFlight = {}))
       ELSE managerCalls' =
              Append(Overlapped,
                     StartCall(origin, "pending", "binding",
                               << Listen(AttemptPort(getConfiguredPort, 0),
                                         "pending") >>,
                               InFlight = {}))
  /\ UNCHANGED managerVars

\* The listen callback of tryStartOnPort: the port was bound.
ListenCallback(i) ==
  /\ i \in StartCalls \cap InFlight
  /\ ~HeldByManager(PortOf(i))
  /\ server' = i
  /\ _isRunning' = TRUE
  /\ _currentPort' = PortOf(i)
  /\ managerCalls' = [managerCalls EXCEPT ![i].status = "resolved",
                                          ![i].socket = "listening",
                                          ![i].tried = Tried(i, "bound")]
  /\ serverRunning' = FlagAfter(managerCalls[i])
  /\ UNCHANGED <<autoStart, configuredPort, extension>>

\* The error event with EADDRINUSE: the port is held by another process or
\* by a listening server of the manager. The loop goes on to the next port
\* or, after the last attempt, start() rejects with the last error.
ListenAddressInUse(i) ==
  /\ i \in StartCalls \cap InFlight
  /\ IF managerCalls[i].attempt + 1 < MAX_PORT_ATTEMPTS
       THEN /\ managerCalls' =
                 [managerCalls EXCEPT
                    ![i].attempt = @ + 1,
                    ![i].error = AlreadyInUse(PortOf(i)),
                    ![i].tried =
                      Append(Tried(i, "in use"),
                             Listen(AttemptPort(managerCalls[i].startPort,
                                                managerCalls[i].attempt + 1),
                                    "pending"))]
            /\ UNCHANGED managerVars
       ELSE /\ _isRunning' = FALSE
            /\ _currentPort' = NullPort
            /\ managerCalls' =
                 [managerCalls EXCEPT ![i].status = "rejected",
                                      ![i].socket = "failed",
                                      ![i].error = AlreadyInUse(PortOf(i)),
                                      ![i].tried = Tried(i, "in use")]
            /\ UNCHANGED server
  /\ UNCHANGED extensionVars

\* The error event with another code: start() rejects at once.
ListenStartupError(i) ==
  /\ i \in StartCalls \cap InFlight
  /\ ~HeldByManager(PortOf(i))
  /\ managerCalls' = [managerCalls EXCEPT ![i].status = "rejected",
                                          ![i].socket = "failed",
                                          ![i].error = StartupError(PortOf(i)),
                                          ![i].tried = Tried(i, "error")]
  /\ UNCHANGED <<managerVars, extensionVars>>

\* stop(): returns at once when not running, otherwise calls close() on the
\* server kept. close() stops a listening server from listening, and calls
\* back with an error when the server was not listening.
stop(origin) ==
  /\ Len(managerCalls) < MaxCalls
  /\ IF ~_isRunning \/ server = NullServer
       THEN managerCalls' =
              Append(Overlapped,
                     StopCall(origin, "resolved", NullServer, NoLastError,
                              InFlight = {}))
       ELSE managerCalls' =
              Append([Overlapped EXCEPT ![server].socket = "closed"],
                     StopCall(origin, "pending", server,
                              IF server \in Listening
                                THEN NoLastError ELSE StopError,
                              InFlight = {}))
  /\ UNCHANGED managerVars

\* The close callback: with an error stop() rejects, without one the
\* manager forgets the server.
CloseCallback(i) ==
  /\ i \in StopCalls \cap InFlight
  /\ IF managerCalls[i].error # NoLastError
       THEN /\ managerCalls' = [managerCalls EXCEPT ![i].status = "rejected"]
            /\ UNCHANGED <<managerVars, serverRunning>>
       ELSE /\ server' = NullServer
            /\ _isRunning' = FALSE
            /\ _currentPort' = NullPort
            /\ managerCalls' = [managerCalls EXCEPT ![i].status = "resolved"]
            /\ serverRunning' = FlagAfter(managerCalls[i])
  /\ UNCHANGED <<autoStart, configuredPort, extension>>

\* A mutant of ShouldStart: both the flag and the setting are required.
ShouldStartWithBoth(wasServerRunning, auto) == wasServerRunning /\ auto

\* if (wasServerRunning || autoStart)
ShouldStart(wasServerRunning, auto) == wasServerRunning \/ auto

\* The command's update of the flag when the call it awaited returned at
\* once.
ReturnedAtOnce ==
  LET call == managerCalls'[Len(managerCalls')]
  IN serverRunning' = IF call.status = "resolved"
                        THEN FlagAfter(call)
                        ELSE serverRunning

\* vscode-lm-proxy.startServer
StartCommand ==
  /\ extension = "active"
  /\ start("command")
  /\ ReturnedAtOnce
  /\ UNCHANGED <<autoStart, configuredPort, extension>>

\* vscode-lm-proxy.stopServer
StopCommand ==
  /\ extension = "active"
  /\ stop("command")
  /\ ReturnedAtOnce
  /\ UNCHANGED <<autoStart, configuredPort, extension>>

\* activate(context), from the state restoration on
Activate ==
  /\ extension # "active"
  /\ extension' = "active"
  /\ IF ShouldStart(serverRunning, autoStart)
       THEN start("activate")
       ELSE UNCHANGED <<managerVars, managerCalls>>
  /\ UNCHANGED <<serverRunning, autoStart, configuredPort>>

\* deactivate()
Deactivate ==
  /\ extension = "active"
  /\ extension' = "deactivated"
  /\ serverRunning' = isRunning
  /\ IF isRunning
       THEN stop("deactivate")
       ELSE UNCHANGED <<managerVars, managerCalls>>
  /\ UNCHANGED <<autoStart, configuredPort>>

\* The extension host exits: its servers and the module state go with it.
\* The global state and the settings stay.
HostExit ==
  /\ extension # "inactive" \/ managerCalls # <<>>
  /\ server' = NullServer
  /\ _isRunning' = FALSE
  /\ _currentPort' = NullPort
  /\ managerCalls' = <<>>
  /\ extension' = "inactive"
  /\ UNCHANGED <<serverRunning, autoStart, configuredPort>>

\* An extension host with the settings and the global state it finds.
ServerInit ==
  /\ pc = "server"
  /\ dialect = "openai"
  /\ body = NoBody
  /\ request = NoRequest
  /\ modelManager = NoModelManager
  /\ canonical = NotConverted
  /\ resolved = NotResolved
  /\ hostLog = <<>>
  /\ messages = <<>>
  /\ parts = <<>>
  /\ part = UnknownPart
  /\ streamState = "none"
  /\ iterators = <<>>
  /\ inputTokens = 0
  /\ outputTokens = 0
  /\ isRoleSent = FALSE
  /\ toolCallIndex = 0
  /\ isToolCalled = FALSE
  /\ stopReason = "end_turn"
  /\ contentIndex = 0
  /\ isInsideTextBlock = FALSE
  /\ textBuffer = ""
  /\ toolCalls = <<>>
  /\ content = <<>>
  /\ out = <<>>
  /\ statusCode = 200
  /\ jsonBody = NoBody
  /\ ended = FALSE
  /\ unhandled = FALSE
  /\ thrown = NoError
  /\ clientClosed = FALSE
  /\ cancellationToken = "none"
  /\ ServerManagerConstructed
  /\ concurrent = NoConcurrent
  /\ serverRunning \in BOOLEAN
  /\ autoStart \in BOOLEAN
  /\ configuredPort \in ConfiguredPorts

requestVars ==
  <<pc, concurrent, converterVars, clientClosed, cancellationToken, dialect, body, hostLog,
    messages, inputTokens, streamVars, synthVars, resVars>>

ServerNext ==
  \/ Activate /\ UNCHANGED requestVars
  \/ Deactivate /\ UNCHANGED requestVars
  \/ StartCommand /\ UNCHANGED requestVars
  \/ StopCommand /\ UNCHANGED requestVars
  \/ HostExit /\ UNCHANGED requestVars
  \/ \E i \in CallIds :
       \/ ListenCallback(i) /\ UNCHANGED requestVars
       \/ ListenAddressInUse(i) /\ UNCHANGED requestVars
       \/ ListenStartupError(i) /\ UNCHANGED requestVars
       \/ CloseCallback(i) /\ UNCHANGED requestVars

ServerSpec == ServerInit /\ [][ServerNext]_vars


(* ---------------------------------------------------------------------- *)
(* Two requests whose streaming synthesizers run concurrently             *)
(* ---------------------------------------------------------------------- *)

\* No fragment is waiting for its token count.
NoPart == [kind |-> "none", value |-> "", callId |-> "", name |-> "", input |-> EmptyObject]

\* The fragments the host streams of the two requests yield.
ConcurrentParts ==
  { TextPart("Hello!"), ToolCallPart("call_1", "get_weather", TokyoInput) }

ConcurrentDialects == {"openai", "anthropic"}

ConcurrentRequests == {1, 2}

\* The locals of one invocation of a streaming synthesizer as declared at
\* its top, with the fragments it took, the events it yielded, the
\* fragment whose countTokens it awaits and the chunk built for it. The
\* Anthropic generator has yielded message_start.
Locals(d, promptTokens) ==
  [dialect |-> d, inputTokens |-> promptTokens, parts |-> <<>>,
   awaited |-> NoPart, chunk |-> NoJson, returned |-> FALSE,
   events |-> IF d = "anthropic" THEN << MessageStart(promptTokens) >> ELSE <<>>,
   isRoleSent |-> FALSE, toolCallIndex |-> 0, isToolCalled |-> FALSE,
   outputTokens |-> 0, stopReason |-> "end_turn", contentIndex |-> 0,
   isInsideTextBlock |-> FALSE]

\* A mutant of LocalsOf: the locals are module state, those of the
\* invocation made first.
LocalsOfModule(r) == [concurrent[1] EXCEPT !.parts = concurrent[r].parts, !.awaited = concurrent[r].awaited, !.chunk = concurrent[r].chunk, !.returned = concurrent[r].returned, !.events = concurrent[r].events, !.dialect = concurrent[r].dialect]

\* The locals an invocation reads and writes are its own.
LocalsOf(r) == concurrent[r]

\* The loop body of convertVSCodeStreamToOpenAIChunks up to its await.
ChatTaken(l, p) ==
  [l EXCEPT
     !.parts = Append(@, p),
     !.awaited = p,
     !.chunk = ChatCompletionChunk(
                 ChunkDelta(p, l.isRoleSent, l.toolCallIndex), Null, ZeroUsage),
     !.isRoleSent = @ \/ isTextPart(p),
     !.toolCallIndex = IF isToolCallPart(p) THEN @ + 1 ELSE @]

\* The rest of the loop body: the count is added and the chunk yielded.
ChatCounted(l) ==
  [l EXCEPT
     !.awaited = NoPart,
     !.chunk = NoJson,
     !.outputTokens = @ + OutputTokensOfPart(l.awaited),
     !.isToolCalled = @ \/ isToolCallPart(l.awaited),
     !.events = Append(@, l.chunk)]

\* The final chunk.
ChatReturned(l) ==
  [l EXCEPT
     !.returned = TRUE,
     !.events = Append(@, ChatCompletionChunk(
                   EmptyDelta, FinishReason(l.isToolCalled),
                   [completion_tokens |-> l.outputTokens,
                    prompt_tokens |-> l.inputTokens,
                    total_tokens |-> l.inputTokens + l.outputTokens]))]

\* The loop body of convertVSCodeStreamToAnthropicStream up to its await.
AnthropicTaken(l, p) ==
  CASE isTextPart(p) ->
         [l EXCEPT
            !.parts = Append(@, p),
            !.awaited = p,
            !.isInsideTextBlock = TRUE,
            !.events =
              @ \o (IF l.isInsideTextBlock THEN <<>>
                    ELSE << TextBlockStart(l.contentIndex) >>)
                \o << TextDelta(l.contentIndex, p) >>]
    [] isToolCallPart(p) ->
         LET index == IF l.isInsideTextBlock
                        THEN NextContentIndex(l.contentIndex)
                        ELSE l.contentIndex
         IN [l EXCEPT
               !.parts = Append(@, p),
               !.awaited = p,
               !.isInsideTextBlock = FALSE,
               !.stopReason = "tool_use",
               !.contentIndex = NextContentIndex(index),
               !.events =
                 @ \o (IF l.isInsideTextBlock
                         THEN << ContentBlockStop(l.contentIndex) >>
                         ELSE <<>>)
                   \o << ToolUseBlockStart(index, p),
                         InputJsonDelta(index, p),
                         ContentBlockStop(index) >>]
    [] OTHER -> [l EXCEPT !.parts = Append(@, p)]

\* The count is added.
AnthropicCounted(l) ==
  [l EXCEPT
     !.awaited = NoPart,
     !.outputTokens = @ + OutputTokensOfPart(l.awaited)]

\* The events after the loop.
AnthropicReturned(l) ==
  [l EXCEPT
     !.returned = TRUE,
     !.isInsideTextBlock = FALSE,
     !.contentIndex = IF l.isInsideTextBlock THEN NextContentIndex(@) ELSE @,
     !.events =
       @ \o (IF l.isInsideTextBlock
               THEN << ContentBlockStop(l.contentIndex) >> ELSE <<>>)
         \o << MessageDelta(l.stopReason, l.inputTokens, l.outputTokens),
               MessageStop >>]

Taken(l, p) ==
  IF l.dialect = "openai" THEN ChatTaken(l, p) ELSE AnthropicTaken(l, p)

Counted(l) ==
  IF l.dialect = "openai" THEN ChatCounted(l) ELSE AnthropicCounted(l)

Returned(l) ==
  IF l.dialect = "openai" THEN ChatReturned(l) ELSE AnthropicReturned(l)

\* The host stream of request r yields a fragment to its synthesizer.
ConcurrentTake(r) ==
  /\ pc = "concurrent"
  /\ ~concurrent[r].returned
  /\ concurrent[r].awaited = NoPart
  /\ Len(concurrent[r].parts) < MaxConcurrentParts
  /\ \E p \in ConcurrentParts :
       concurrent' = [concurrent EXCEPT ![r] = Taken(LocalsOf(r), p)]
  /\ UNCHANGED <<pc, serverVars, converterVars, clientClosed, cancellationToken,
                 dialect, body, hostLog, messages, inputTokens, streamVars,
                 synthVars, resVars>>

\* The countTokens call of request r returns.
ConcurrentCounted(r) ==
  /\ pc = "concurrent"
  /\ concurrent[r].awaited # NoPart
  /\ concurrent' = [concurrent EXCEPT ![r] = Counted(LocalsOf(r))]
  /\ UNCHANGED <<pc, serverVars, converterVars, clientClosed, cancellationToken,
                 dialect, body, hostLog, messages, inputTokens, streamVars,
                 synthVars, resVars>>

\* The host stream of request r ends.
ConcurrentReturn(r) ==
  /\ pc = "concurrent"
  /\ ~concurrent[r].returned
  /\ concurrent[r].awaited = NoPart
  /\ concurrent' = [concurrent EXCEPT ![r] = Returned(LocalsOf(r))]
  /\ UNCHANGED <<pc, serverVars, converterVars, clientClosed, cancellationToken,
                 dialect, body, hostLog, messages, inputTokens, streamVars,
                 synthVars, resVars>>

\* Two requests have reached their streaming synthesizers.
ConcurrentInit ==
  /\ pc = "concurrent"
  /\ concurrent \in
       [ConcurrentRequests ->
          { Locals(d, n) : d \in ConcurrentDialects, n \in InputTokenCounts }]
  /\ dialect = "openai"
  /\ body = NoBody
  /\ request = NoRequest
  /\ modelManager = NoModelManager
  /\ canonical = NotConverted
  /\ resolved = NotResolved
  /\ hostLog = <<>>
  /\ messages = <<>>
  /\ parts = <<>>
  /\ part = UnknownPart
  /\ streamState = "none"
  /\ iterators = <<>>
  /\ inputTokens = 0
  /\ outputTokens = 0
  /\ isRoleSent = FALSE
  /\ toolCallIndex = 0
  /\ isToolCalled = FALSE
  /\ stopReason = "end_turn"
  /\ contentIndex = 0
  /\ isInsideTextBlock = FALSE
  /\ textBuffer = ""
  /\ toolCalls = <<>>
  /\ content = <<>>
  /\ out = <<>>
  /\ statusCode = 200
  /\ jsonBody = NoBody
  /\ ended = FALSE
  /\ unhandled = FALSE
  /\ thrown = NoError
  /\ clientClosed = FALSE
  /\ cancellationToken = "none"
  /\ ServerManagerConstructed
  /\ serverRunning = FALSE
  /\ autoStart = FALSE
  /\ configuredPort = 4000

ConcurrentNext ==
  \E r \in ConcurrentRequests :
    \/ ConcurrentTake(r)
    \/ ConcurrentCounted(r)
    \/ ConcurrentReturn(r)

ConcurrentSpec == ConcurrentInit /\ [][ConcurrentNext]_vars


(* ---------------------------------------------------------------------- *)
(* Properties                                                             *)
(* ---------------------------------------------------------------------- *)

\* A streaming response of dialect d whose stream was read to its end.
StreamedToEnd(d) ==
  dialect = d /\ isStreaming /\ pc = "done" /\ streamState = "ended"

\* A non-streaming response of dialect d whose stream was read to its end.
CollectedToEnd(d) ==
  dialect = d /\ ~isStreaming /\ pc = "done" /\ streamState = "ended"

\* The Anthropic events written so far.
Events == [i \in 1..Len(out) |-> out[i].json]

IsOfType(event, type) == "type" \in DOMAIN event /\ event.type = type

IsBlockEvent(event) ==
  \/ IsOfType(event, "content_block_start")
  \/ IsOfType(event, "content_block_delta")
  \/ IsOfType(event, "content_block_stop")

EventsOfType(type) == {i \in 1..Len(out) : IsOfType(Events[i], type)}

BlockStarts == EventsOfType("content_block_start")
BlockStops == EventsOfType("content_block_stop")

\* The stops written for the block opened by event i.
StopsOf(i) == {j \in BlockStops : Events[j].index = Events[i].index}

HasToolCall(seq) == \E i \in 1..Len(seq) : isToolCallPart(seq[i])
HasText(seq) == \E i \in 1..Len(seq) : isTextPart(seq[i])

\* The chunks of an OpenAI Chat stream written so far.
IsChunk(frame) == frame.field = "data" /\ "choices" \in DOMAIN frame.json
Chunks == {i \in 1..Len(out) : IsChunk(out[i])}
ChoiceOf(i) == out[i].json.choices[1]

\* C1: in an Anthropic stream no content_block_stop is written without an
\* earlier content_block_start of its index, no index is stopped twice, the
\* indices of successive content_block_start events strictly increase, and
\* once the stream was read to its end every content_block_start has
\* exactly one content_block_stop of its index, written after it.
C1_BlockPairing ==
  (dialect = "anthropic" /\ isStreaming) =>
    /\ \A j \in BlockStops :
         \E i \in BlockStarts : i < j /\ Events[i].index = Events[j].index
    /\ \A i \in BlockStarts : Cardinality(StopsOf(i)) <= 1
    /\ \A i, k \in BlockStarts : i < k => Events[i].index < Events[k].index
    /\ StreamedToEnd("anthropic") =>
         \A i \in BlockStarts :
           /\ Cardinality(StopsOf(i)) = 1
           /\ \A j \in StopsOf(i) : i < j

\* C1 witness: a stream read to its end that opened and closed three blocks.
C1_Witness ==
  /\ StreamedToEnd("anthropic")
  /\ Cardinality(BlockStarts) = 3
  /\ Cardinality(BlockStops) = 3

\* The finish/stop reason a response reports, or Undefined before it does.
ReportedReason ==
  CASE dialect = "openai" /\ isStreaming ->
         IF pc \in {"chat_return", "done"} /\ streamState = "ended"
         THEN ChoiceOf(Len(parts) + 1).finish_reason ELSE Undefined
    [] dialect = "openai" /\ ~isStreaming ->
         IF CollectedToEnd("openai")
         THEN jsonBody.choices[1].finish_reason ELSE Undefined
    [] dialect = "anthropic" /\ isStreaming ->
         IF EventsOfType("message_delta") # {}
         THEN Events[CHOOSE i \in EventsOfType("message_delta") : TRUE]
                .delta.stop_reason
         ELSE Undefined
    [] dialect = "anthropic" /\ ~isStreaming ->
         IF CollectedToEnd("anthropic") THEN jsonBody.stop_reason
         ELSE Undefined
    [] OTHER -> Undefined

\* C2: in the OpenAI Chat and Anthropic synthesizers, streaming or not, the
\* reported finish/stop reason is the tool-call value exactly when the
\* fragment sequence holds a tool call, and else 'stop' / 'end_turn'; at
\* every turn of the loop the flag that decides it is set exactly when a
\* tool call was seen, so later text never resets it.
C2_StopReason ==
  /\ (dialect = "openai" /\ streamState # "none") =>
       (isToolCalled <=> HasToolCall(parts))
  /\ (dialect = "anthropic" /\ ~isStreaming /\ streamState # "none") =>
       (isToolCalled <=> HasToolCall(parts))
  /\ (dialect = "anthropic" /\ isStreaming /\ pc = "anthropic_loop") =>
       ((stopReason = "tool_use") <=> HasToolCall(parts))
  /\ (dialect = "openai" /\ streamState = "ended" /\ pc \in {"chat_return", "done"}) =>
       ReportedReason = IF HasToolCall(parts) THEN "tool_calls" ELSE "stop"
  /\ (dialect = "anthropic" /\ streamState = "ended" /\ pc = "done") =>
       ReportedReason = IF HasToolCall(parts) THEN "tool_use" ELSE "end_turn"

\* C2 witness: a finished OpenAI Chat stream whose tool call came before its
\* last text fragment and that reports tool_calls.
C2_Witness ==
  /\ StreamedToEnd("openai")
  /\ Len(parts) >= 2
  /\ isToolCallPart(parts[1])
  /\ isTextPart(parts[Len(parts)])
  /\ ReportedReason = "tool_calls"

\* The output-token total of a fragment sequence: count(value) for a text
\* fragment, count(JSON of the fragment) for a tool call.
RECURSIVE SumOfCounts(_)
SumOfCounts(seq) ==
  IF seq = <<>> THEN 0
  ELSE (CASE seq[1].kind = "text" -> countTokens(seq[1].value)
          [] seq[1].kind = "tool" -> countTokens(JSONStringifyPart(seq[1]))
          [] OTHER -> 0)
       + SumOfCounts(Tail(seq))

\* The output-token total a finished response reports.
ReportedOutputTokens ==
  CASE dialect = "openai" /\ isStreaming ->
         out[Len(out) - 1].json.usage.completion_tokens
    [] dialect = "openai" -> jsonBody.usage.completion_tokens
    [] dialect = "responses" /\ isStreaming ->
         out[Len(out)].json.response.usage.output_tokens
    [] dialect = "responses" -> jsonBody.usage.output_tokens
    [] dialect = "anthropic" /\ isStreaming ->
         out[Len(out) - 1].json.usage.output_tokens
    [] OTHER -> jsonBody.usage.output_tokens

\* C3: in every dialect the output-token total of a response whose stream
\* was read to its end is the sum of the per-fragment counts of the
\* sequence, whether the response was streamed or not; so both modes report
\* the same total for the same sequence.
C3_OutputTokens ==
  (pc = "done" /\ streamState = "ended") =>
    ReportedOutputTokens = SumOfCounts(parts)

\* C3 witness: a finished OpenAI Responses stream of text and a tool call
\* that reports the tokens of both.
C3_Witness ==
  /\ StreamedToEnd("responses")
  /\ HasToolCall(parts)
  /\ \E i \in 1..Len(parts) : parts[i] = TextPart("Hello!")
  /\ ReportedOutputTokens > countTokens("Hello!")

\* The chunks of an OpenAI Chat stream whose delta carries a role.
RoleChunks == {i \in Chunks : "role" \in DOMAIN ChoiceOf(i).delta}

\* C4: in an OpenAI Chat stream exactly one chunk carries a role when a text
\* fragment was read and none otherwise; it is the chunk of the first text
\* fragment, also when tool-call chunks come before it.
C4_RoleDelta ==
  (dialect = "openai" /\ isStreaming) =>
    /\ Cardinality(RoleChunks) = IF HasText(parts) THEN 1 ELSE 0
    /\ \A i \in RoleChunks :
         /\ i <= Len(parts)
         /\ isTextPart(parts[i])
         /\ \A k \in 1..(i - 1) : ~isTextPart(parts[k])

\* C4 witness: a finished stream whose first text fragment follows a tool
\* call and is followed by more text.
C4_Witness ==
  /\ StreamedToEnd("openai")
  /\ Len(parts) = 3
  /\ isToolCallPart(parts[1])
  /\ isTextPart(parts[2])
  /\ isTextPart(parts[3])
  /\ RoleChunks = {2}

\* C5: an OpenAI Chat stream read to its end, the empty one included, ends
\* with one chunk of empty delta and non-null finish_reason followed by the
\* [DONE] frame; every earlier frame is a chunk whose finish_reason is null,
\* and [DONE] is only ever the last frame of an ended response.
C5_FinalChunk ==
  (dialect = "openai" /\ isStreaming) =>
    /\ \A i \in 1..Len(out) : out[i] = DoneFrame => (i = Len(out) /\ ended)
    /\ StreamedToEnd("openai") =>
         LET n == Len(out)
         IN /\ n = Len(parts) + 2
            /\ ended
            /\ out[n] = DoneFrame
            /\ IsChunk(out[n - 1])
            /\ ChoiceOf(n - 1).delta = EmptyDelta
            /\ ChoiceOf(n - 1).finish_reason \in {"stop", "tool_calls"}
            /\ \A i \in 1..(n - 2) :
                 IsChunk(out[i]) /\ ChoiceOf(i).finish_reason = Null

\* C5 witness: a finished stream whose chunks before the final one include
\* one of empty delta, for a fragment that is neither text nor tool call.
C5_Witness ==
  /\ StreamedToEnd("openai")
  /\ Len(out) = 4
  /\ parts[1] = UnknownPart
  /\ ChoiceOf(1).delta = EmptyDelta
  /\ out[4] = DoneFrame

\* The order of events the OpenAI Responses stream has for n text fragments.
LifecycleOf(n) ==
  << "response.created", "response.in_progress",
     "response.output_item.added", "response.content_part.added" >>
  \o [i \in 1..n |-> "response.output_text.delta"]
  \o << "response.output_text.done", "response.content_part.done",
        "response.output_item.done", "response.completed" >>

\* C6: an OpenAI Responses stream read to its end is the fixed lifecycle:
\* created, in_progress, output_item.added, content_part.added, one
\* output_text.delta per text fragment in order, output_text.done,
\* content_part.done, output_item.done, completed; each is an event line
\* and a data line of the same type, tool calls add no event, and every
\* output_index and content_index is 0.
C6_Lifecycle ==
  StreamedToEnd("responses") =>
    LET texts == SelectSeq(parts, isTextPart)
        expected == LifecycleOf(Len(texts))
    IN /\ Len(out) = 2 * Len(expected)
       /\ \A k \in 1..Len(expected) :
            /\ out[2 * k - 1] = EventFrame(expected[k])
            /\ out[2 * k].field = "data"
            /\ out[2 * k].json.type = expected[k]
            /\ "output_index" \in DOMAIN out[2 * k].json =>
                 out[2 * k].json.output_index = 0
            /\ "content_index" \in DOMAIN out[2 * k].json =>
                 out[2 * k].json.content_index = 0
       /\ \A i \in 1..Len(texts) :
            out[2 * (4 + i)].json.delta = texts[i].value

\* C6 witness: a finished stream of text, a tool call and text again, with
\* two deltas.
C6_Witness ==
  /\ StreamedToEnd("responses")
  /\ Len(parts) = 3
  /\ isTextPart(parts[1])
  /\ isToolCallPart(parts[2])
  /\ isTextPart(parts[3])
  /\ Len(out) = 20

\* C7: in an Anthropic stream message_start is only ever the first event and
\* content_block_* events come after it and never after message_delta; a
\* stream read to its end, the empty one included, has message_start first
\* and once, message_delta and message_stop as its last two events, each
\* once, and only content_block_* events between.
C7_Envelope ==
  (dialect = "anthropic" /\ isStreaming) =>
    /\ EventsOfType("message_start") \subseteq {1}
    /\ Len(out) >= 1 => IsOfType(Events[1], "message_start")
    /\ \A i \in 1..Len(out) : \A j \in EventsOfType("message_delta") :
         IsBlockEvent(Events[i]) => i < j
    /\ StreamedToEnd("anthropic") =>
         LET n == Len(out)
         IN /\ n >= 3
            /\ EventsOfType("message_start") = {1}
            /\ EventsOfType("message_delta") = {n - 1}
            /\ EventsOfType("message_stop") = {n}
            /\ \A i \in 2..(n - 2) : IsBlockEvent(Events[i])

\* C7 witness: a finished stream with content blocks between the envelope
\* events.
C7_Witness ==
  /\ StreamedToEnd("anthropic")
  /\ Len(out) > 3
  /\ BlockStarts # {}
  /\ IsOfType(Events[Len(out)], "message_stop")

\* The blocks opened and not yet closed.
OpenBlocks == {i \in BlockStarts : StopsOf(i) = {}}

BlocksOfType(type) ==
  {i \in BlockStarts : Events[i].content_block.type = type}

\* The number of text blocks a fragment sequence needs: one per run of text
\* fragments not separated by a tool call.
TextRuns(seq) ==
  LET known == SelectSeq(seq, LAMBDA p : isTextPart(p) \/ isToolCallPart(p))
  IN Cardinality({i \in 1..Len(known) :
                    /\ isTextPart(known[i])
                    /\ (i = 1 \/ isToolCallPart(known[i - 1]))})

ToolCalls(seq) == Cardinality({i \in 1..Len(seq) : isToolCallPart(seq[i])})

\* C8: in an Anthropic stream at most one content block is open at a time;
\* a block is closed before the next one is opened, so a text block is
\* closed before a tool_use block starts; every delta lies inside the open
\* block of its index and kind; a later block has a higher index; and
\* consecutive text fragments share a block, so there is one text block per
\* run of text and one tool_use block per tool call.
C8_OneOpenBlock ==
  (dialect = "anthropic" /\ isStreaming) =>
    /\ Cardinality(OpenBlocks) <= 1
    /\ \A i, k \in BlockStarts :
         i < k => /\ \E j \in StopsOf(i) : j < k
                  /\ Events[i].index < Events[k].index
    /\ \A k \in EventsOfType("content_block_delta") :
         \E i \in BlockStarts :
           /\ i < k
           /\ Events[i].index = Events[k].index
           /\ \A j \in StopsOf(i) : k < j
           /\ Events[k].delta.type =
                IF Events[i].content_block.type = "text"
                THEN "text_delta" ELSE "input_json_delta"
    /\ (pc = "anthropic_loop" \/ StreamedToEnd("anthropic")) =>
         /\ Cardinality(BlocksOfType("text")) = TextRuns(parts)
         /\ Cardinality(BlocksOfType("tool_use")) = ToolCalls(parts)

\* C8 witness: a finished stream of text, a tool call and text again: three
\* blocks, the text blocks on both sides of the tool_use block.
C8_Witness ==
  /\ StreamedToEnd("anthropic")
  /\ Len(parts) = 3
  /\ isTextPart(parts[1])
  /\ isToolCallPart(parts[2])
  /\ isTextPart(parts[3])
  /\ Cardinality(BlocksOfType("text")) = 2
  /\ Cardinality(BlocksOfType("tool_use")) = 1
  /\ OpenBlocks = {}

\* The frames that carry a dialect-shaped error.
IsErrorFrame(frame) ==
  /\ frame.field = "data"
  /\ IF dialect = "openai"
     THEN DOMAIN frame.json = {"error"}
     ELSE IsOfType(frame.json, "error") /\ "error" \in DOMAIN frame.json

ErrorFrames == {i \in 1..Len(out) : IsErrorFrame(out[i])}

\* C9: in every dialect, a streaming response whose host stream failed after
\* k fragments was ended and holds, after the events of the k fragments,
\* exactly one dialect-shaped error event, followed by [DONE] in OpenAI Chat
\* and by nothing in the other dialects; and every finished streaming
\* response was ended.
C9_StreamFailure ==
  /\ (isStreaming /\ pc = "done" /\ streamState \in {"ended", "failed"}) =>
       ended
  /\ (isStreaming /\ pc = "done" /\ streamState = "failed") =>
       LET n == Len(out)
       IN /\ Cardinality(ErrorFrames) = 1
          /\ CASE dialect = "openai" ->
                    /\ n = Len(parts) + 2
                    /\ ErrorFrames = {n - 1}
                    /\ out[n] = DoneFrame
               [] dialect = "responses" ->
                    /\ n = 2 * (4 + Len(SelectSeq(parts, isTextPart))) + 2
                    /\ ErrorFrames = {n}
                    /\ out[n - 1] = EventFrame("error")
               [] OTHER -> ErrorFrames = {n}

\* C10: in every dialect a request whose messages (input for OpenAI
\* Responses) is missing or empty is answered with a 400-class status and
\* an error of the dialect's invalid_request type.
C10_MissingMessages ==
  (/\ pc = "done"
   /\ IF dialect = "responses"
      THEN body.input \in {"undefined", "null", "emptyString", "blankString",
                           "emptyArray"}
      ELSE body.messages \in {"undefined", "emptyArray"}) =>
    /\ ended
    /\ statusCode \in 400..499
    /\ jsonBody.error.type = "invalid_request_error"

\* C11: in every dialect no host-model call (model selection, countTokens,
\* sendRequest) is made before validation has completed, and none is ever
\* made for a request whose validation fails.
C11_ValidateFirst ==
  /\ pc = "validate" => hostLog = <<>>
  /\ ValidationError(dialect, body) # NoError => hostLog = <<>>

\* C11 witness: a request whose validation failed was answered, with no
\* host-model call made.
C11_Witness ==
  /\ pc = "done"
  /\ ValidationError(dialect, body) # NoError
  /\ thrown = ValidationError(dialect, body)
  /\ ended
  /\ hostLog = <<>>

\* The HTTP status designated for each host error kind of the closed set.
DesignatedStatus(name) ==
  CASE name \in {"InvalidMessageFormat", "InvalidModel"} -> 400
    [] name \in {"NoPermissions", "Blocked"} -> 403
    [] name = "NotFound" -> 404
    [] name = "ChatQuotaExceeded" -> 429
    [] OTHER -> 500

\* The error type of a body the dialect's mapper returns.
ErrorTypeOf(json) == json.error.type

\* The handler's catch answered the request with the mapped error.
AnsweredWithError ==
  /\ pc = "done"
  /\ thrown # NoError
  /\ streamState # "failed" \/ ~isStreaming
  /\ ended

\* C12: for an error of each kind of the closed set the mapper of every
\* dialect returns the designated status (invalid message format 400,
\* invalid model 400, no permission 403, blocked 403, not found 404, quota
\* exceeded 429, unknown 500) with an error type of the dialect, and the
\* handler answers with that status.
C12_StatusTable ==
  (pc = "done" /\ thrown.name \in HostErrorNames) =>
    LET r == ErrorResponse(dialect, thrown)
    IN /\ ~r.threw
       /\ r.statusCode = DesignatedStatus(thrown.name)
       /\ "type" \in DOMAIN r.json.error
       /\ AnsweredWithError => statusCode = DesignatedStatus(thrown.name)

\* The request passed validation and failed before sendRequest, though its
\* normalizer does not throw: the model could not be resolved.
ResolutionFailed ==
  /\ pc = "done"
  /\ thrown # NoError
  /\ ValidationError(dialect, body) = NoError
  /\ ~NormalizedRequest(dialect, body).threw
  /\ \A i \in 1..Len(hostLog) : hostLog[i] # "sendRequest"

\* C13: in every dialect a request whose model cannot be resolved, and a
\* non-streaming request during which the host raises a not-found error, is
\* answered with HTTP 404 and the not-found error type; after a failed
\* resolution sendRequest is never called.
C13_NotFound ==
  /\ (ResolutionFailed \/ (pc = "done" /\ ~isStreaming /\ thrown.name = "NotFound")) =>
       /\ ended
       /\ statusCode = 404
       /\ ErrorTypeOf(jsonBody) = "not_found_error"
  /\ thrown.code = "model_not_found" =>
       \A i \in 1..Len(hostLog) : hostLog[i] # "sendRequest"

\* C13 witness: model selection found no model; the request was answered
\* with 404 and the host model was never sent a request.
C13_Witness ==
  /\ ResolutionFailed
  /\ hostLog = << "selectChatModels" >>
  /\ thrown.code = "model_not_found"
  /\ statusCode = 404

\* The error names some mapper's table has an entry for.
RecognizedNames == HostErrorNames \cup {"InvalidInputRequest"}

\* C14: an error whose name is not a recognized host error kind is mapped,
\* in every dialect, to status 500 with the dialect's api_error type; the
\* mapper does not throw, and the handler's promise is never rejected.
C14_UnrecognizedKind ==
  (pc = "done" /\ thrown # NoError /\ thrown.name \notin RecognizedNames) =>
    LET r == ErrorResponse(dialect, thrown)
    IN /\ ~r.threw
       /\ ~unhandled
       /\ r.statusCode = 500
       /\ ErrorTypeOf(r.json) = "api_error"
       /\ AnsweredWithError => statusCode = 500

\* C15: a non-streaming response to a stream of zero fragments is sent with
\* status 200 and holds the empty text: OpenAI Chat message.content = "",
\* Anthropic content of one text block with text "", OpenAI Responses one
\* output_text part with text ""; and it reports the non-tool reason.
C15_EmptyStream ==
  (~isStreaming /\ pc = "done" /\ streamState = "ended" /\ parts = <<>>) =>
    /\ ended
    /\ statusCode = 200
    /\ CASE dialect = "openai" ->
              LET choice == jsonBody.choices[1]
              IN /\ Len(jsonBody.choices) = 1
                 /\ "content" \in DOMAIN choice.message
                 /\ choice.message.content = ""
                 /\ choice.finish_reason = "stop"
         [] dialect = "anthropic" ->
              /\ jsonBody.content = << [type |-> "text", text |-> ""] >>
              /\ jsonBody.stop_reason = "end_turn"
         [] OTHER ->
              /\ Len(jsonBody.output) = 1
              /\ jsonBody.output[1].content =
                   << [type |-> "output_text", text |-> ""] >>
              /\ jsonBody.status = "completed"

\* C15 witness: the Anthropic non-streaming response to an empty stream.
C15_Witness ==
  /\ CollectedToEnd("anthropic")
  /\ parts = <<>>
  /\ Len(jsonBody.content) = 1
  /\ jsonBody.content[1].text = ""

\* The concatenation of the text of the text fragments of a sequence.
RECURSIVE TextOfParts(_)
TextOfParts(seq) ==
  IF seq = <<>> THEN ""
  ELSE (IF seq[1].kind = "text" THEN seq[1].value ELSE "")
       \o TextOfParts(Tail(seq))

\* The concatenation of the text of the text blocks of a content array.
RECURSIVE TextOfBlocks(_)
TextOfBlocks(blocks) ==
  IF blocks = <<>> THEN ""
  ELSE (IF blocks[1].type = "text" THEN blocks[1].text ELSE "")
       \o TextOfBlocks(Tail(blocks))

\* The positions of the tool calls of a fragment sequence, in order, and of
\* the tool_use blocks of a content array.
ToolPositions(seq) == {i \in 1..Len(seq) : seq[i].kind = "tool"}
ToolUsePositions(blocks) == {i \in 1..Len(blocks) : blocks[i].type = "tool_use"}

\* The k-th smallest member of a set of numbers.
Nth(S, k) == CHOOSE x \in S : Cardinality({y \in S : y <= x}) = k

\* C16: the content of an Anthropic non-streaming response keeps fragment
\* order: the k-th tool call is the k-th tool_use block, with its callId,
\* name and input; the text before each tool_use block, and all the text,
\* is the text of the fragments before that tool call, in one text block
\* per run; no text block is empty unless content is the one empty block of
\* a response without any block; a single tool call gives content of that
\* one tool_use block and stop_reason 'tool_use'.
C16_ContentOrder ==
  CollectedToEnd("anthropic") =>
    LET blocks == jsonBody.content
        tools == ToolPositions(parts)
        uses == ToolUsePositions(blocks)
    IN /\ Cardinality(uses) = Cardinality(tools)
       /\ \A k \in 1..Cardinality(tools) :
            LET p == parts[Nth(tools, k)]
                b == Nth(uses, k)
            IN /\ blocks[b] = [type |-> "tool_use", id |-> p.callId,
                               name |-> p.name, input |-> p.input]
               /\ TextOfBlocks(SubSeq(blocks, 1, b - 1)) =
                    TextOfParts(SubSeq(parts, 1, Nth(tools, k) - 1))
       /\ TextOfBlocks(blocks) = TextOfParts(parts)
       /\ \A i \in 1..(Len(blocks) - 1) :
            ~(blocks[i].type = "text" /\ blocks[i + 1].type = "text")
       /\ \A i \in 1..Len(blocks) :
            (blocks[i].type = "text" /\ blocks[i].text = "") => Len(blocks) = 1
       /\ Len(blocks) >= 1
       /\ (Len(parts) = 1 /\ tools = {1}) =>
            /\ Len(blocks) = 1
            /\ jsonBody.stop_reason = "tool_use"

\* C16 witness: text, a tool call and text again give a text block, the
\* tool_use block and a text block.
C16_Witness ==
  /\ CollectedToEnd("anthropic")
  /\ parts = << TextPart("Hello!"),
                ToolCallPart("call_1", "get_weather", TokyoInput),
                TextPart("Hello!") >>
  /\ Len(jsonBody.content) = 3
  /\ jsonBody.content[2].type = "tool_use"
  /\ jsonBody.content[2].input = TokyoInput

\* The number of sendRequest calls made for the request.
SendRequestCalls ==
  Cardinality({i \in 1..Len(hostLog) : hostLog[i] = "sendRequest"})

\* C17: in every dialect, whenever sendRequest was called for a request that
\* passed validation, the messages given to it were not empty.
C17_MessagesNotEmpty ==
  SendRequestCalls > 0 => messages # <<>>

\* Validation, model resolution and normalization of the request succeed.
ReachesSendRequest ==
  /\ ValidationError(dialect, body) = NoError
  /\ ~NormalizedRequest(dialect, body).threw
  /\ thrown.code # "model_not_found"

\* C18: a request makes at most one sendRequest call, none before the
\* handler gets there and exactly one once it got past it or finished
\* after validation, model resolution and normalization succeeded; a
\* failure is never followed by another call; and the returned stream is
\* iterated by one loop only, that of the synthesizer of the request's
\* dialect and mode, entered once.
C18_OneHostCall ==
  /\ SendRequestCalls <= 1
  /\ pc \in {"validate", "getModel", "convertRequest", "sendRequest"} =>
       SendRequestCalls = 0
  /\ streamState # "none" => SendRequestCalls = 1
  /\ (pc = "done" /\ ReachesSendRequest) => SendRequestCalls = 1
  /\ (pc = "done" /\ ~ReachesSendRequest) => SendRequestCalls = 0
  /\ Len(iterators) <= 1
  /\ streamState = "none" => (iterators = <<>> /\ parts = <<>>)
  /\ (parts # <<>> \/ streamState \in {"ended", "failed"}) =>
       iterators = << Synthesizer(dialect, isStreaming) >>

\* C18 witness: a request finished after one sendRequest call whose stream
\* was read to its end by one loop.
C18_Witness ==
  /\ pc = "done"
  /\ streamState = "ended"
  /\ SendRequestCalls = 1
  /\ Len(iterators) = 1
  /\ Len(parts) = 2

\* The final OpenAI Responses result: the response of response.completed,
\* or the non-streaming response object.
ResponsesResult ==
  IF isStreaming THEN out[Len(out)].json.response ELSE jsonBody

\* A Responses result reports the tool-call outcome: its status is not the
\* plain 'completed', or its output holds a function_call item.
ReportsToolCall(response) ==
  \/ response.status # "completed"
  \/ \E i \in 1..Len(response.output) :
       response.output[i].type = "function_call"

\* C19: the result of the OpenAI Responses synthesizer, streaming or not,
\* reports the tool-call outcome exactly when the fragment sequence holds a
\* tool call, as the OpenAI Chat and Anthropic synthesizers do.
C19_ResponsesOutcome ==
  (dialect = "responses" /\ pc = "done" /\ streamState = "ended") =>
    (ReportsToolCall(ResponsesResult) <=> HasToolCall(parts))

\* The number of tool calls among the first n fragments.
ToolCallsBefore(n) ==
  Cardinality({k \in 1..n : isToolCallPart(parts[k])})

\* C20: in an OpenAI Chat stream the chunk of the k-th tool call (k from 0)
\* holds exactly one tool call, with index k, however many text fragments
\* come before or between; no other chunk holds tool calls.
C20_ToolCallIndex ==
  (dialect = "openai" /\ isStreaming) =>
    \A i \in 1..Len(parts) :
      /\ i <= Len(out)
      /\ IsChunk(out[i])
      /\ LET delta == ChoiceOf(i).delta
         IN IF isToolCallPart(parts[i])
            THEN /\ "tool_calls" \in DOMAIN delta
                 /\ Len(delta.tool_calls) = 1
                 /\ delta.tool_calls[1].index = ToolCallsBefore(i - 1)
                 /\ delta.tool_calls[1].id = parts[i].callId
            ELSE "tool_calls" \notin DOMAIN delta

\* C20 witness: two tool calls separated by text get the indices 0 and 1.
C20_Witness ==
  /\ StreamedToEnd("openai")
  /\ Len(parts) = 3
  /\ isToolCallPart(parts[1])
  /\ isTextPart(parts[2])
  /\ isToolCallPart(parts[3])
  /\ ChoiceOf(1).delta.tool_calls[1].index = 0
  /\ ChoiceOf(3).delta.tool_calls[1].index = 1


(* ---------------------------------------------------------------------- *)
(* Properties of the request normalizers and of the model lookup          *)
(* ---------------------------------------------------------------------- *)

\* The normalizer has returned for the request of dialect d.
Converted(d) == pc = "converted" /\ request.dialect = d /\ ~canonical.threw

\* The messages of the request, as the normalizer of its dialect reads them.
InputMessages == IF request.dialect = "responses" THEN request.input.parts
                 ELSE request.messages

\* Every input item is a message and no system prompt precedes them, so
\* the i-th canonical message is made from the i-th input message.
MessagesOnly ==
  /\ request.dialect = "responses" => request.input.kind = "array"
  /\ \A i \in 1..Len(InputMessages) : InputMessages[i].type = "message"
  /\ request.instructions = Undefined
  /\ request.system.kind = "undefined"

\* The texts a canonical text may continue with after a role tag.
TaggedTexts ==
  { "", "hi", "ok", "one", "two", "be brief", "be kind" }
  \cup { ChatPart(p).value : p \in ChatInputParts }
  \cup { "[Image URL]: u", "[File URL]: f" }

StartsWith(s, prefix) == \E t \in TaggedTexts : s = prefix \o t

\* The text content of a canonical message starts with the tag.
ContentStartsWith(c, tag) ==
  \/ c.kind = "string" /\ StartsWith(c.text, tag)
  \/ /\ c.kind = "array"
     /\ Len(c.parts) > 0
     /\ c.parts[1].kind = "text"
     /\ StartsWith(c.parts[1].value, tag)

RoleTag(role) == IF role = "system" THEN "[SYSTEM] " ELSE "[DEVELOPER] "

\* C21: every input message with role system or developer (OpenAI Chat and
\* OpenAI Responses messages, the Responses instructions and the Anthropic
\* system prompt), whether its content is a string or an array of parts,
\* becomes a canonical message with role Assistant whose text content
\* starts with '[SYSTEM] ' or '[DEVELOPER] ', at the position of the input
\* message.
C21_RoleTag ==
  /\ (pc = "converted" /\ request.dialect \in {"openai", "responses"}
      /\ ~canonical.threw /\ MessagesOnly)
       => /\ Len(canonical.messages) = Len(InputMessages)
          /\ \A i \in 1..Len(InputMessages) :
               InputMessages[i].role \in {"system", "developer"}
                 => /\ canonical.messages[i].role = "Assistant"
                    /\ ContentStartsWith(canonical.messages[i].content,
                                         RoleTag(InputMessages[i].role))
  /\ (Converted("responses") /\ request.instructions # Undefined)
       => /\ canonical.messages[1].role = "Assistant"
          /\ canonical.messages[1].content = StringContent("[SYSTEM] " \o request.instructions)
  /\ (Converted("anthropic") /\ request.system.kind = "string")
       => /\ canonical.messages[1].role = "Assistant"
          /\ canonical.messages[1].content = StringContent("[SYSTEM] " \o request.system.text)
  /\ (Converted("anthropic") /\ request.system.kind = "array")
       => \A i \in 1..Len(request.system.parts) :
            /\ canonical.messages[i].role = "Assistant"
            /\ canonical.messages[i].content =
                 StringContent("[SYSTEM] " \o request.system.parts[i].text)

\* The roles the role switch of a dialect's normalizer has a case for.
RoleTable(d) ==
  CASE d = "openai" -> {"user", "assistant", "developer", "system", "tool", "function"}
    [] d = "responses" -> {"user", "assistant", "system", "developer"}
    [] OTHER -> {"user", "assistant"}

\* C22: in every request normalizer a message whose role is not in the
\* dialect's role table becomes a canonical message with role User, and the
\* normalizer does not throw for it.
C22_UnknownRole ==
  (pc = "converted" /\ MessagesOnly)
    => \A i \in 1..Len(InputMessages) :
         InputMessages[i].role \notin RoleTable(request.dialect)
           => /\ ~canonical.threw
              /\ Len(canonical.messages) = Len(InputMessages)
              /\ canonical.messages[i].role = "User"

\* C23: for every request of every dialect the canonical tools list has
\* the same length and order as the request's tools list: each request
\* tool, built-in tool types included, yields exactly one canonical tool
\* with its name and a description, and no tool is dropped.
C23_ToolsKept ==
  (pc = "converted" /\ request.tools.kind = "array")
    => /\ ~canonical.threw
       /\ canonical.toolsSet
       /\ Len(canonical.tools) = Len(request.tools.items)
       /\ \A i \in 1..Len(request.tools.items) :
            /\ request.tools.items[i].name # Undefined
                 => canonical.tools[i].name = request.tools.items[i].name
            /\ canonical.tools[i].description # Undefined

\* C24: in every request normalizer each defined request field that is not
\* represented canonically appears in modelOptions under its original key
\* with its original value, and modelOptions has no key that was not a
\* field of the request.
C24_Passthrough ==
  (pc = "converted" /\ ~canonical.threw)
    => /\ \A k \in DOMAIN request.fields :
            /\ k \in DOMAIN canonical.modelOptions
            /\ canonical.modelOptions[k] = request.fields[k]
       /\ \A k \in DOMAIN canonical.modelOptions : k \in DOMAIN request.fields

\* The output-budget fields of a dialect, and the key of modelOptions
\* under which the normalizer of the dialect places them.
BudgetFields(d) ==
  CASE d = "openai" -> {"max_tokens", "max_completion_tokens"}
    [] d = "responses" -> {"max_output_tokens"}
    [] OTHER -> {"max_tokens"}

BudgetKey(d, field) == IF d = "responses" THEN "max_tokens" ELSE field

\* C25: an output budget of exactly 1 token is widened to 16 before it is
\* placed in modelOptions and every other budget is passed unchanged, for
\* the output-budget field of every dialect (max_tokens,
\* max_completion_tokens, max_output_tokens).
C25_BudgetFloor ==
  (pc = "converted" /\ ~canonical.threw)
    => \A f \in BudgetFields(request.dialect) \cap DOMAIN request.fields :
         /\ BudgetKey(request.dialect, f) \in DOMAIN canonical.modelOptions
         /\ canonical.modelOptions[BudgetKey(request.dialect, f)]
              = IF request.fields[f] = 1 THEN 16 ELSE request.fields[f]

\* Part types that carry text or a tool call or result; every other type
\* is a non-text part.
TextTypes == {"text", "input_text", "output_text"}
ToolTypes == {"tool_use", "tool_result"}

\* The bracketed tags, and the texts that consist of a tag and a payload.
PartTags ==
  { "[Image URL]: ", "[Input Audio]: ", "[File]: ", "[Refusal]: ", "[File URL]: ",
    "[Image] ", "[Document] ", "[Thinking] ", "[Unknown Type] " }

PayloadTexts ==
  UNION { { p.payload, JSONStringifyPayload(p.payload) } :
            p \in ChatInputParts \cup ResponsesInputParts \cup AnthropicInputParts }

HasPartTag(text) == \E tag \in PartTags, t \in PayloadTexts : text = tag \o t

\* C26: for every non-text input content part of every dialect (image,
\* audio, file, document, thinking, refusal, and part types the normalizer
\* does not know) the normalizer produces exactly one TextPart at the
\* part's position whose text contains a bracketed tag; no non-text part is
\* dropped or turned into an undefined part.
C26_NonTextParts ==
  (pc = "converted" /\ MessagesOnly /\ ~canonical.threw)
    => \A i \in 1..Len(InputMessages) :
         InputMessages[i].content.kind = "array"
           => LET input == InputMessages[i].content.parts
                  output == canonical.messages[i].content
              IN /\ output.kind = "array"
                 /\ Len(output.parts) = Len(input)
                 /\ \A j \in 1..Len(input) :
                      input[j].type \notin TextTypes \cup ToolTypes
                        => /\ output.parts[j].kind = "text"
                           /\ HasPartTag(output.parts[j].value)

\* The lookup has returned for a request of the provider.
LookedUp(provider) == pc = "resolved" /\ request.provider = provider

\* The ids the model manager holds for a provider; Claude Code shares the
\* Anthropic dialect and has a background and a thinking model of its own.
ConfiguredIds(provider) ==
  CASE provider = "openai" -> { modelManager.openaiModelId }
    [] provider = "anthropic" -> { modelManager.anthropicModelId }
    [] OTHER -> { modelManager.anthropicModelId,
                  modelManager.claudeCodeBackgroundModelId,
                  modelManager.claudeCodeThinkingModelId }

\* C27: the model id 'vscode-lm-proxy' is accepted in every dialect, the
\* Claude Code variant included: when the models of the dialect are
\* configured the lookup returns a configured model instead of failing with
\* not-found; for Claude Code an id containing 'haiku' resolves to the
\* configured background model and one containing 'sonnet' or 'opus' to the
\* configured thinking model.
C27_ProxyModel ==
  /\ \A p \in Providers :
       (LookedUp(p) /\ request.model = ProxyModelId /\ NullId \notin ConfiguredIds(p))
         => /\ ~resolved.threw
            /\ resolved.vsCodeModelId \in ConfiguredIds(p)
  /\ (LookedUp("claude") /\ Includes(request.model, "haiku")
      /\ modelManager.claudeCodeBackgroundModelId # NullId)
       => resolved = ModelFound(modelManager.claudeCodeBackgroundModelId)
  /\ (LookedUp("claude") /\ ~Includes(request.model, "haiku")
      /\ (Includes(request.model, "sonnet") \/ Includes(request.model, "opus"))
      /\ modelManager.claudeCodeThinkingModelId # NullId)
       => resolved = ModelFound(modelManager.claudeCodeThinkingModelId)

\* The tool_choice values of a dialect: its strings (OpenAI) or types
\* (Anthropic), and the choice of a named tool.
ToolChoiceTable(d) ==
  IF d = "anthropic"
  THEN { ObjectChoice("auto"), ObjectChoice("any"), ObjectChoice("none"),
         ObjectChoice("tool") }
  ELSE { StringChoice("auto"), StringChoice("required"), StringChoice("none"),
         ObjectChoice("function") }

NamedToolChoices == { ObjectChoice("tool"), ObjectChoice("function") }

C29_MissingModel ==
  body.model = Undefined
    => /\ hostLog = <<>>
       /\ pc = "done"
            => /\ ended
               /\ statusCode \in 400..499
               /\ jsonBody.error.type = "invalid_request_error"

\* C30: every handler passes a cancellation handle into the host-model
\* call, and when the client closes its connection in the middle of a
\* streaming response that handle is cancelled and the synthesis ends
\* through the dialect's streaming error path with an in-band error event,
\* never silently truncated or left running to its end.
C30_Cancellation ==
  /\ SendRequestCalls > 0 => cancellationToken # "none"
  /\ (clientClosed /\ pc = "done")
       => /\ cancellationToken = "cancelled"
          /\ streamState = "failed"
          /\ ErrorFrames # {}


(* ---------------------------------------------------------------------- *)
(* Properties of usage, ordering and equivalence of the two paths         *)
(* ---------------------------------------------------------------------- *)

\* C31: the Anthropic message_start event carries zero usage (input and
\* output token counts both 0) for every request, and the final usage
\* appears in message_delta.
C31_ZeroUsage ==
  (dialect = "anthropic" /\ isStreaming) =>
    /\ \A i \in EventsOfType("message_start") :
         /\ Events[i].message.usage.input_tokens = 0
         /\ Events[i].message.usage.output_tokens = 0
    /\ \A i \in EventsOfType("message_delta") :
         /\ Events[i].usage.input_tokens = inputTokens
         /\ Events[i].usage.output_tokens = SumOfCounts(parts)


(* ---------------------------------------------------------------------- *)
(* Properties of the server manager and of the extension's life cycle     *)
(* ---------------------------------------------------------------------- *)

\* The start() calls that made a listen.
Listened == { i \in StartCalls : managerCalls[i].tried # <<>> }

\* The call was made last and no other call was in progress during it.
LastAlone(i) == i = Len(managerCalls) /\ managerCalls[i].alone

\* C32: start() tries the configured port p and then p+1, ..., p+9 in
\* increasing order, one listen at a time, and goes on to the next port only
\* after a port-in-use error; it binds the first port that is not in use
\* and resolves; it makes at most 10 listens; after the tenth port-in-use
\* error it rejects with that last error and isRunning() is false; on any
\* other error it rejects at once with that error.
C32_PortSearch ==
  \A i \in Listened :
    LET call == managerCalls[i]
        n == Len(call.tried)
        last == call.tried[n]
    IN /\ n <= 10
       /\ n = call.attempt + 1
       /\ \A k \in 1..n : call.tried[k].port = call.startPort + (k - 1)
       /\ \A k \in 1..(n - 1) : call.tried[k].result = "in use"
       /\ (call.status = "pending") <=> (last.result = "pending")
       /\ (call.status = "resolved") <=> (last.result = "bound")
       /\ (call.status = "rejected") <=>
            \/ last.result = "error"
            \/ last.result = "in use" /\ n = 10
       /\ last.result = "bound" =>
            /\ call.socket \in {"listening", "closed"}
            /\ LastAlone(i) =>
                 /\ isRunning
                 /\ getCurrentPort = last.port
                 /\ call.socket = "listening"
       /\ last.result = "error" => call.error = StartupError(last.port)
       /\ (last.result = "in use" /\ n = 10) =>
            /\ call.error = AlreadyInUse(call.startPort + 9)
            /\ LastAlone(i) => ~isRunning

\* C32 witness: one start() was rejected after ten busy ports and another
\* bound the third port it tried.
C32_Witness ==
  /\ \E i \in Listened :
       /\ managerCalls[i].status = "rejected"
       /\ Len(managerCalls[i].tried) = 10
       /\ managerCalls[i].error.message = "already in use"
  /\ \E i \in Listened :
       /\ managerCalls[i].status = "resolved"
       /\ Len(managerCalls[i].tried) = 3
       /\ LastAlone(i)

\* The calls of a command that resolve in this step.
ResolvedNow(op) ==
  { i \in DOMAIN managerCalls' :
      /\ managerCalls'[i].op = op
      /\ managerCalls'[i].origin = "command"
      /\ managerCalls'[i].status = "resolved"
      /\ i \in DOMAIN managerCalls => managerCalls[i].status = "pending" }

\* The step is an activation, and it calls start().
Activation == extension # "active" /\ extension' = "active"

ActivationStarts ==
  /\ Len(managerCalls') = Len(managerCalls) + 1
  /\ managerCalls'[Len(managerCalls')].op = "start"
  /\ managerCalls'[Len(managerCalls')].origin = "activate"

\* The step is a deactivation.
Deactivation == extension = "active" /\ extension' = "deactivated"

C33_Step ==
  /\ Activation =>
       /\ ActivationStarts <=> (serverRunning \/ autoStart)
       /\ ~ActivationStarts => UNCHANGED <<managerVars, managerCalls>>
  /\ ResolvedNow("start") # {} => serverRunning'
  /\ ResolvedNow("stop") # {} => ~serverRunning'
  /\ Deactivation => serverRunning' = isRunning
  /\ (serverRunning' /\ ~serverRunning) =>
       ResolvedNow("start") # {} \/ Deactivation
  /\ (~serverRunning' /\ serverRunning) =>
       ResolvedNow("stop") # {} \/ Deactivation

\* C33: activation calls start() exactly when the persisted serverRunning
\* flag or the autoStart setting is true; the flag becomes true only when a
\* start command's start() has resolved, false only when a stop command's
\* stop() has resolved, and at deactivation it takes the value of
\* isRunning() at that moment; so with the flag false and autoStart off an
\* activation starts no server.
C33_StartCondition == [][C33_Step]_vars

\* C33 witness: the server started by an activation from the persisted
\* flag, with autoStart off, was stopped by the stop command, and the flag
\* is false.
C33_Witness ==
  /\ ~autoStart
  /\ ~serverRunning
  /\ ~isRunning
  /\ Len(managerCalls) = 2
  /\ managerCalls[1].origin = "activate"
  /\ managerCalls[1].socket = "closed"
  /\ managerCalls[2].op = "stop"
  /\ managerCalls[2].origin = "command"
  /\ managerCalls[2].status = "resolved"

\* Every call made so far has returned.
Quiescent == InFlight = {}

\* C39: once the start() and stop() calls made have all returned, however
\* they were interleaved, at most one server created by the manager is
\* listening, and isRunning() is true exactly when one is listening.
C39_OneServer ==
  Quiescent =>
    /\ Cardinality(Listening) <= 1
    /\ isRunning <=> (Listening # {})

\* Each call made so far completed before the next began.
Sequential == \A i \in CallIds : managerCalls[i].alone

\* The manager as a call found it.
Before(call) == call.before = <<server, _isRunning, _currentPort>>

\* What holds when the call made last has returned.
AfterCall(call) ==
  /\ (call.op = "start" /\ call.before[2]) =>
       Before(call) /\ call.socket = "none"
  /\ (call.op = "stop" /\ ~call.before[2]) =>
       Before(call) /\ call.target = NullServer
  /\ (call.op = "start" /\ call.status = "resolved" /\ ~call.before[2]) =>
       /\ isRunning
       /\ getCurrentPort = call.tried[Len(call.tried)].port
       /\ getServerUrl =
            "http://localhost:" \o ToString(call.tried[Len(call.tried)].port)
       /\ Listening = {Len(managerCalls)}
  /\ (call.op = "stop" /\ call.status = "resolved") =>
       /\ ~isRunning
       /\ getCurrentPort = NullPort
       /\ getServerUrl = NullUrl
       /\ Listening = {}
  /\ (call.op = "stop" /\ call.status = "rejected") => Before(call)

\* C40: in a sequence of start() and stop() calls each of which completes
\* before the next begins, start() while running and stop() while not
\* running change nothing; after a start() that resolved isRunning() is
\* true, getCurrentPort() is the bound port and getServerUrl() is
\* http://localhost:<that port>; after a stop() that resolved isRunning() is
\* false and the port and the URL are null; after a stop() that rejected
\* the manager is as before; and in every state getServerUrl() is non-null
\* exactly when isRunning() is true.
C40_StartStop ==
  /\ (getServerUrl # NullUrl) <=> isRunning
  /\ (Sequential /\ managerCalls # <<>> /\ Quiescent) =>
       AfterCall(managerCalls[Len(managerCalls)])

\* C40 witness: a start() bound the second port of its search and the
\* stop() made after it had returned has resolved.
C40_Witness ==
  /\ Sequential
  /\ Quiescent
  /\ Len(managerCalls) = 2
  /\ managerCalls[1].op = "start"
  /\ Len(managerCalls[1].tried) = 2
  /\ managerCalls[1].socket = "closed"
  /\ managerCalls[2].op = "stop"
  /\ managerCalls[2].status = "resolved"
  /\ getServerUrl = NullUrl


(* ---------------------------------------------------------------------- *)
(* Properties of ordering, of the two paths and of termination            *)
(* ---------------------------------------------------------------------- *)

\* What a written frame carries of a fragment: nothing, or the kind of the
\* fragment with its text, its call id (OpenAI Chat) or its input (Anthropic).
PayloadOfFrame(frame) ==
  CASE dialect = "openai" /\ IsChunk(frame)
         /\ frame.json.choices[1].finish_reason = Null ->
         LET delta == frame.json.choices[1].delta
         IN IF "content" \in DOMAIN delta
              THEN << <<"text", delta.content>> >>
              ELSE IF "tool_calls" \in DOMAIN delta
                     THEN << <<"tool", delta.tool_calls[1].id>> >>
                     ELSE << <<"other", "">> >>
    [] dialect = "responses" /\ frame.field = "data"
         /\ IsOfType(frame.json, "response.output_text.delta") ->
         << <<"text", frame.json.delta>> >>
    [] dialect = "anthropic" /\ frame.field = "data"
         /\ IsOfType(frame.json, "content_block_delta") ->
         IF frame.json.delta.type = "text_delta"
           THEN << <<"text", frame.json.delta.text>> >>
           ELSE << <<"tool", frame.json.delta.partial_json>> >>
    [] OTHER -> <<>>

\* The same of a fragment: what the dialect's stream shows of it.
PayloadOfPart(p) ==
  CASE isTextPart(p) -> << <<"text", p.value>> >>
    [] isToolCallPart(p) /\ dialect = "openai" -> << <<"tool", p.callId>> >>
    [] isToolCallPart(p) /\ dialect = "anthropic" ->
         << <<"tool", JSONStringify(p.input)>> >>
    [] ~isToolCallPart(p) /\ dialect = "openai" -> << <<"other", "">> >>
    [] OTHER -> <<>>

RECURSIVE Written(_)
Written(frames) ==
  IF frames = <<>> THEN <<>>
  ELSE PayloadOfFrame(frames[1]) \o Written(Tail(frames))

RECURSIVE Derived(_)
Derived(seq) ==
  IF seq = <<>> THEN <<>>
  ELSE PayloadOfPart(seq[1]) \o Derived(Tail(seq))

IsPrefix(s, t) == Len(s) <= Len(t) /\ s = SubSeq(t, 1, Len(s))

\* The events of the last fragment taken are complete: an Anthropic tool
\* call has its content_block_stop.
LastFragmentClosed ==
  (dialect = "anthropic" /\ parts # <<>> /\ isToolCallPart(parts[Len(parts)])) =>
    IsOfType(out[Len(out)].json, "content_block_stop")

\* What is written of the fragments is in fragment order and lacks at most
\* the events of the fragment taken last.
C34_InOrder ==
  isStreaming =>
    /\ IsPrefix(Written(out), Derived(parts))
    /\ parts # <<>> =>
         IsPrefix(Derived(SubSeq(parts, 1, Len(parts) - 1)), Written(out))
    /\ streamState = "ended" => Written(out) = Derived(parts)

\* A fragment is requested from the host stream only when the events of all
\* earlier fragments are written.
C34_Request ==
  (isStreaming /\ parts' # parts) =>
    /\ Written(out) = Derived(parts)
    /\ LastFragmentClosed

\* C34: in the streaming path of every dialect all events of fragment i are
\* written before fragment i+1 is requested from the host stream, and the
\* events are written in the order of the fragments.
C34_FragmentOrder == []C34_InOrder /\ [][C34_Request]_vars

\* C34 witness: an Anthropic stream of a text fragment, a tool call and a
\* text fragment was read to its end.
C34_Witness ==
  /\ StreamedToEnd("anthropic")
  /\ Len(parts) = 3
  /\ isTextPart(parts[1])
  /\ isToolCallPart(parts[2])
  /\ isTextPart(parts[3])
  /\ Len(Written(out)) = 3

\* The synthesizer of a request run alone over the fragments, from the
\* locals l on.
RECURSIVE RunAlone(_, _)
RunAlone(l, seq) ==
  IF seq = <<>> THEN l
  ELSE LET taken == Taken(l, seq[1])
       IN RunAlone(IF taken.awaited = NoPart THEN taken
                   ELSE Counted(taken),
                   Tail(seq))

\* The response of a request processed alone.
Alone(d, promptTokens, seq) == Returned(RunAlone(Locals(d, promptTokens), seq))

\* The tool-call indices (OpenAI Chat) and the block indices (Anthropic) of
\* a sequence of events.
IndicesOf(events) ==
  [i \in 1..Len(events) |->
     IF "index" \in DOMAIN events[i] THEN events[i].index
     ELSE IF "choices" \in DOMAIN events[i]
             /\ "tool_calls" \in DOMAIN events[i].choices[1].delta
            THEN events[i].choices[1].delta.tool_calls[1].index
            ELSE -1]

RECURSIVE TextOfPayloads(_)
TextOfPayloads(payloads) ==
  IF payloads = <<>> THEN ""
  ELSE (IF payloads[1][1] = "text" THEN payloads[1][2] ELSE "")
       \o TextOfPayloads(Tail(payloads))

\* The text deltas of the stream written, concatenated in emission order.
StreamedText == TextOfPayloads(Written(out))

\* The text of the non-streaming response.
CollectedText ==
  CASE dialect = "openai" -> jsonBody.choices[1].message.content
    [] dialect = "responses" -> jsonBody.output[1].content[1].text
    [] OTHER -> TextOfBlocks(jsonBody.content)

\* C36: for every fragment sequence and every dialect the text deltas of
\* the streaming path, concatenated in emission order, and the text of the
\* non-streaming response are both the concatenation of all text fragments
\* in stream order, and so equal each other; in a Responses stream the text
\* of output_text.done and of response.completed is the same text.
C36_SameText ==
  \A d \in Dialects :
    /\ StreamedToEnd(d) => StreamedText = TextOfParts(parts)
    /\ CollectedToEnd(d) => CollectedText = TextOfParts(parts)
    /\ StreamedToEnd("responses") =>
         /\ EventsOfType("response.output_text.done") # {}
         /\ EventsOfType("response.completed") # {}
         /\ \A i \in EventsOfType("response.output_text.done") :
              Events[i].text = StreamedText
         /\ \A i \in EventsOfType("response.completed") :
              Events[i].response.output[1].content[1].text = StreamedText

\* C36 witness: a Responses stream of two text fragments with a tool call
\* between them was read to its end.
C36_Witness ==
  /\ StreamedToEnd("responses")
  /\ Len(parts) = 3
  /\ parts[1] = TextPart("Hello!")
  /\ isToolCallPart(parts[2])
  /\ parts[3] = TextPart("Hello!")
  /\ StreamedText = "Hello!Hello!"

\* The content list convertVSCodeTextToAnthropicMessage returns for a
\* fragment sequence: the loop over the fragments from the blocks and the
\* text buffer given, then the two pushes after it.
RECURSIVE CollectedContent(_, _, _)
CollectedContent(blocks, text, seq) ==
  IF seq = <<>>
    THEN AnthropicMessage(blocks, text, FALSE, 0, 0).content
    ELSE CASE isTextPart(seq[1]) ->
                CollectedContent(blocks, text \o seq[1].value, Tail(seq))
           [] isToolCallPart(seq[1]) ->
                CollectedContent(
                  Append(FlushTextBuffer(blocks, text), ToolUseBlock(seq[1])),
                  "", Tail(seq))
           [] OTHER -> CollectedContent(blocks, text, Tail(seq))

\* What the claim compares of a content block: its type, the text of a
\* text block, the id and name of a tool_use block.
BlockShape(block) ==
  IF block.type = "text"
    THEN [type |-> "text", text |-> block.text]
    ELSE [type |-> block.type, id |-> block.id, name |-> block.name]

ShapesOf(blocks) == [k \in 1..Len(blocks) |-> BlockShape(blocks[k])]

\* The text deltas of the block of the given index, concatenated in the
\* order written.
RECURSIVE DeltaTextOf(_, _)
DeltaTextOf(index, frames) ==
  IF frames = <<>> THEN ""
  ELSE (IF /\ IsOfType(frames[1].json, "content_block_delta")
           /\ frames[1].json.index = index
           /\ frames[1].json.delta.type = "text_delta"
          THEN frames[1].json.delta.text ELSE "")
       \o DeltaTextOf(index, Tail(frames))

\* The content blocks the stream written has opened, by index.
StreamedBlocks ==
  [k \in 1..Cardinality(BlockStarts) |->
     LET i == CHOOSE j \in BlockStarts : Events[j].index = k - 1
         block == Events[i].content_block
     IN IF block.type = "text"
          THEN [type |-> "text", text |-> DeltaTextOf(k - 1, out)]
          ELSE [type |-> block.type, id |-> block.id, name |-> block.name]]

\* The fragment sequence is not empty and its text fragments are not empty.
NonEmptyTexts(seq) ==
  /\ seq # <<>>
  /\ \A i \in 1..Len(seq) : isTextPart(seq[i]) => seq[i].value # ""

\* The stream written and the non-streaming response show the same blocks
\* for the fragments taken.
SameBlocks ==
  /\ \A k \in 1..Cardinality(BlockStarts) :
       \E j \in BlockStarts : Events[j].index = k - 1
  /\ StreamedBlocks = ShapesOf(CollectedContent(<<>>, "", parts))

\* C37, as stated: for every non-empty fragment sequence whose text
\* fragments are non-empty strings, the content blocks of the Anthropic
\* stream, listed by index with their type, the id and name of a tool_use
\* block and the concatenated deltas of a text block, are exactly the
\* content list of the Anthropic non-streaming response for the same
\* sequence.
C37_EveryNonEmptySequence ==
  (StreamedToEnd("anthropic") /\ NonEmptyTexts(parts)) => SameBlocks

\* C37, amended: the same for every sequence that holds at least one text
\* fragment or tool call and whose text fragments are non-empty strings;
\* the content list of the non-streaming response is the one computed from
\* the fragments.
C37_SameBlocks ==
  /\ CollectedToEnd("anthropic") =>
       jsonBody.content = CollectedContent(<<>>, "", parts)
  /\ (/\ StreamedToEnd("anthropic")
      /\ NonEmptyTexts(parts)
      /\ HasText(parts) \/ HasToolCall(parts)) => SameBlocks

\* C37 witness: an Anthropic stream of two text fragments and a tool call
\* was read to its end; it shows a text block and a tool_use block.
C37_Witness ==
  /\ StreamedToEnd("anthropic")
  /\ Len(parts) = 3
  /\ parts[1] = TextPart("Hello!")
  /\ parts[2] = TextPart("Hello!")
  /\ isToolCallPart(parts[3])
  /\ Len(StreamedBlocks) = 2
  /\ StreamedBlocks[1] = [type |-> "text", text |-> "Hello!Hello!"]

\* The terminal success event of the dialect's stream.
IsSuccessFrame(frame) ==
  /\ frame.field = "data"
  /\ CASE dialect = "openai" ->
            IsChunk(frame) /\ frame.json.choices[1].finish_reason # Null
       [] dialect = "responses" -> IsOfType(frame.json, "response.completed")
       [] OTHER -> \/ IsOfType(frame.json, "message_delta")
                   \/ IsOfType(frame.json, "message_stop")

SuccessFrames == {i \in 1..Len(out) : IsSuccessFrame(out[i])}

\* The handler is in handleStreamingResponse or has left it.
StreamingStarted == isStreaming /\ streamState # "none"

C38_Written ==
  /\ ErrorFrames = {} \/ SuccessFrames = {}
  /\ SuccessFrames # {} => streamState = "ended" /\ thrown = NoError
  /\ \A i \in ErrorFrames :
       /\ streamState = "failed"
       /\ \A j \in (i + 1)..Len(out) : out[j] = DoneFrame
  /\ StreamingStarted => jsonBody = NoBody

C38_Step ==
  /\ ErrorFrames # {} => out' = out
  /\ StreamingStarted => jsonBody' = NoBody

\* C38: in every dialect's streaming path the written stream never holds
\* both the terminal success event and an error event: the terminal success
\* event is written only after the host stream was read to its end without
\* error, nothing but the [DONE] sentinel follows an error event and nothing
\* is written once the error event and its sentinel are, and after
\* streaming has started no JSON body is written.
C38_SuccessOrError == []C38_Written /\ [][C38_Step]_vars

\* C38 witness: a Responses stream failed after a text fragment; the delta
\* of the fragment is followed by the error event, and no terminal event
\* was written.
C38_Witness ==
  /\ dialect = "responses"
  /\ isStreaming
  /\ pc = "done"
  /\ streamState = "failed"
  /\ parts = << TextPart("Hello!") >>
  /\ EventsOfType("response.output_text.delta") # {}
  /\ ErrorFrames = {Len(out)}
  /\ SuccessFrames = {}
  /\ jsonBody = NoBody

====
